---------------------------- MODULE Spec2Model ----------------------------
(***************************************************************************)
(* A model of LMReview (notebooklm_single_folder_flow.py): the file        *)
(* catalog and tagger of FileManager, the watchdog handler with its        *)
(* debounced refresh, the clipboard poll loop and prompt generation.       *)
(*                                                                         *)
(* File names are sequences of Unicode code points, so that startswith,    *)
(* endswith, concatenation and Python's ordering of str are computed as    *)
(* the program computes them.                                              *)
(***************************************************************************)
EXTENDS Integers, Sequences, FiniteSets, TLC

VARIABLES
    files,              \* the input directory: name -> [kind, id] per entry
    ret,                \* the FileManager call of the last step, its result
    out,                \* the handler run by the last step, what it showed
    untagged_items,     \* the rows (with tag buttons) of the untagged panel
    combo_values,       \* the values offered by combo_review
    combo_review_var,   \* the review target selected in combo_review
    prompt_display,     \* the text of the prompt box, as lines
    timers,             \* the callbacks pending in Tk's after() queue
    refresh_job,        \* self._refresh_job
    processing,         \* AutoTagHandler.processing
    burst,              \* history of the refresh requests, for the claims
    clipboard,          \* the system clipboard: [readable, text]
    clipboard_auto_var, \* the checkbox of the clipboard monitor
    clipboard_job,      \* self._clipboard_job
    last_clipboard,     \* self._last_clipboard
    reply_display,      \* the text of the reply box
    polls,              \* history of the polls, for the claims
    window,             \* the window: not built, open, aborted, destroyed
    base_path,          \* cfg.base_path
    dirs,               \* the input directories that exist: [base, sel]
    selection,          \* the project and delivery selected
    observer,           \* self.observer and its thread
    watch,              \* the directory the observer watches, if any
    wthread             \* the observer's thread: where it is in a handler

viewVars == <<untagged_items, combo_values, combo_review_var>>
watchVars == <<timers, refresh_job, processing, burst>>
clipVars == <<clipboard, clipboard_auto_var, clipboard_job, last_clipboard,
              reply_display, polls>>
lifeVars == <<window, base_path, dirs, selection, observer, watch, wthread>>
vars == <<files, ret, out, untagged_items, combo_values, combo_review_var,
          prompt_display, timers, refresh_job, processing, burst,
          clipboard, clipboard_auto_var, clipboard_job, last_clipboard,
          reply_display, polls,
          window, base_path, dirs, selection, observer, watch, wthread>>

---------------------------------------------------------------------------
(* Bounds of the model. *)

MaxFiles == 3       \* entries in the input directory at one time
MaxAppFiles == 2    \* the same, while the window is open
MaxPolls == 3       \* polls counted since the monitor was armed
MaxPending == 3     \* callbacks pending when the observer takes an event
MaxSamples == 6     \* size samplings the file system is asked to answer

---------------------------------------------------------------------------
(* AppConfig.tags and the markers of is_skip_file, as code points. *)

TagStd == <<12304, 27161, 28310, 12305>>
TagTpl == <<12304, 31684, 26412, 12305>>
TagRev == <<12304, 24453, 23529, 12305>>
tags == <<TagStd, TagTpl, TagRev>>
TagSet == {tags[i] : i \in 1..Len(tags)}

LockMarker == <<126, 36>>
HiddenMarker == <<46>>
TmpSuffix == <<46, 116, 109, 112>>

(* The names a caller may pass to tag_file: a, .a, ~$a, a.tmp, and a name  *)
(* that opens with the bracket of a tag without being one.                 *)
BaseNames ==
    { <<97>>, <<46, 97>>, <<126, 36, 97>>, <<97, 46, 116, 109, 112>>,
      <<12304, 97>> }

(* The names under which other processes put entries into the directory:  *)
(* those, a under a tag already, and one name that carries two tags.       *)
Names ==
    BaseNames \cup {TagStd \o <<97>>, TagRev \o <<97>>,
                    TagStd \o TagTpl \o <<97>>}

(* The names under which they make subdirectories. *)
DirNames == {<<97>>, TagRev \o <<97>>}

Kinds(n) == IF n \in DirNames THEN {"file", "dir"} ELSE {"file"}

---------------------------------------------------------------------------
(* str.startswith, str.endswith and the ordering of str. *)

StartsWith(s, p) ==
    /\ Len(p) <= Len(s)
    /\ SubSeq(s, 1, Len(p)) = p

EndsWith(s, p) ==
    /\ Len(p) <= Len(s)
    /\ SubSeq(s, Len(s) - Len(p) + 1, Len(s)) = p

Min(a, b) == IF a <= b THEN a ELSE b

(* a < b for Python str: the first differing code point decides; a proper  *)
(* prefix comes first.                                                     *)
StrLess(a, b) ==
    LET n == Min(Len(a), Len(b))
        diff == {i \in 1..n : a[i] # b[i]}
    IN IF diff = {} THEN Len(a) < Len(b)
       ELSE LET k == CHOOSE i \in diff : \A j \in diff : i <= j
            IN a[k] < b[k]

RECURSIVE SortedSeq(_)
SortedSeq(S) ==
    IF S = {} THEN <<>>
    ELSE LET m == CHOOSE x \in S : \A y \in S \ {x} : StrLess(x, y)
         IN <<m>> \o SortedSeq(S \ {m})

Range(s) == {s[i] : i \in 1..Len(s)}

(* is_skip_file without its test of the suffix. *)
is_skip_file_NoSuffix(fn) ==
    \/ StartsWith(fn, LockMarker)
    \/ StartsWith(fn, HiddenMarker)

is_skip_file(fn) ==
    \/ StartsWith(fn, LockMarker)
    \/ StartsWith(fn, HiddenMarker)
    \/ EndsWith(fn, TmpSuffix)

(* The test of the comprehensions, looking at the first tag only. *)
HasTag_FirstOnly(f) == StartsWith(f, tags[1])

HasTag(f) == \E i \in 1..Len(tags) : StartsWith(f, tags[i])

---------------------------------------------------------------------------
(* FileManager.list_input_files: os.listdir yields each entry once, in no  *)
(* particular order; the two comprehensions filter it and sorted() orders  *)
(* the results.  A missing directory lists as an empty one does.           *)

all_files(fs) ==
    {f \in DOMAIN fs : fs[f].kind = "file" /\ ~is_skip_file(f)}

list_input_files(fs) ==
    LET all == all_files(fs)
        tagged == {f \in all : HasTag(f)}
        untagged == {f \in all : ~HasTag(f)}
    IN [tagged |-> SortedSeq(tagged), untagged |-> SortedSeq(untagged)]

---------------------------------------------------------------------------
(* FileManager.tag_file.  The messages are the strings the method returns: *)
(* NotFound, Conflict, Busy and the text of any other exception.           *)

MsgNotFound == "NotFound"
MsgConflict == "Conflict"
MsgBusy == "Busy"
MsgOSError == "OSError"
MsgDenied == "PermissionDenied"

(* os.rename(old, new) on a directory without an entry `new`. *)
Renamed(fs, old, new) ==
    [n \in (DOMAIN fs \ {old}) \cup {new} |-> IF n = new THEN fs[old] ELSE fs[n]]

(* What os.rename does when tag_file reaches it: it succeeds; or the file  *)
(* is held open by another process (a sharing violation); or the caller    *)
(* may not write to the directory or the file (access denied); or it fails *)
(* for another reason.                                                     *)
RenameOutcomes == {"ok", "locked", "denied", "failed"}

(* The exception os.rename raises: Python raises PermissionError for a     *)
(* sharing violation and for an access that is denied alike.               *)
Raised(outcome) ==
    CASE outcome \in {"locked", "denied"} -> "PermissionError"
      [] outcome = "failed" -> "OSError"
      [] OTHER -> "none"

(* str(e) of the exception. *)
StrOf(outcome) == IF outcome = "failed" THEN MsgOSError ELSE MsgDenied

TagFailed(fs, msg) ==
    [ok |-> FALSE, name |-> <<>>, err |-> msg, fs |-> fs, rename |-> "none"]

(* tag_file has reached os.rename, which raised. *)
RenameFailed(fs, msg, outcome) == [TagFailed(fs, msg) EXCEPT !.rename = outcome]

(* tag_file without its test of the source: the rename of a missing file   *)
(* raises, and the handler returns the text of the exception.              *)
tag_file_NoSourceCheck(fs, filename, tag, outcome) ==
    LET new_filename == tag \o filename
    IN IF new_filename \in DOMAIN fs THEN TagFailed(fs, MsgConflict)
       ELSE IF Raised(outcome) = "PermissionError"
            THEN RenameFailed(fs, MsgBusy, outcome)
       ELSE IF Raised(outcome) = "OSError" \/ filename \notin DOMAIN fs
            THEN RenameFailed(fs, MsgOSError, "failed")
       ELSE [ok |-> TRUE, name |-> new_filename, err |-> "",
             fs |-> Renamed(fs, filename, new_filename), rename |-> "ok"]

(* tag_file without its test of the destination: the rename replaces the   *)
(* entry that was there.                                                   *)
tag_file_NoDestCheck(fs, filename, tag, outcome) ==
    LET new_filename == tag \o filename
    IN IF filename \notin DOMAIN fs THEN TagFailed(fs, MsgNotFound)
       ELSE IF Raised(outcome) = "PermissionError"
            THEN RenameFailed(fs, MsgBusy, outcome)
       ELSE IF Raised(outcome) = "OSError"
            THEN RenameFailed(fs, StrOf(outcome), outcome)
       ELSE [ok |-> TRUE, name |-> new_filename, err |-> "",
             fs |-> Renamed(fs, filename, new_filename), rename |-> "ok"]

(* tag_file appending the tag instead of prepending it. *)
tag_file_Suffix(fs, filename, tag, outcome) ==
    LET new_filename == filename \o tag
    IN IF filename \notin DOMAIN fs THEN TagFailed(fs, MsgNotFound)
       ELSE IF new_filename \in DOMAIN fs THEN TagFailed(fs, MsgConflict)
       ELSE IF Raised(outcome) = "PermissionError"
            THEN RenameFailed(fs, MsgBusy, outcome)
       ELSE IF Raised(outcome) = "OSError"
            THEN RenameFailed(fs, StrOf(outcome), outcome)
       ELSE [ok |-> TRUE, name |-> new_filename, err |-> "",
             fs |-> Renamed(fs, filename, new_filename), rename |-> "ok"]

(* What tag_file returns and the directory it leaves.  With no other       *)
(* process touching the file during the call both size samples agree and   *)
(* the stability wait ends on its first attempt.                           *)
tag_file(fs, filename, tag, outcome) ==
    LET new_filename == tag \o filename
    IN IF filename \notin DOMAIN fs THEN TagFailed(fs, MsgNotFound)
       ELSE IF new_filename \in DOMAIN fs THEN TagFailed(fs, MsgConflict)
       ELSE IF Raised(outcome) = "PermissionError"
            THEN RenameFailed(fs, MsgBusy, outcome)
       ELSE IF Raised(outcome) = "OSError"
            THEN RenameFailed(fs, StrOf(outcome), outcome)
       ELSE [ok |-> TRUE, name |-> new_filename, err |-> "",
             fs |-> Renamed(fs, filename, new_filename), rename |-> "ok"]

---------------------------------------------------------------------------
(* The stability wait of tag_file: for _ in range(5), two os.path.getsize  *)
(* with time.sleep(0.1) between them, and a bare except that sleeps 0.1.   *)
(* What one attempt finds: both sizes equal; two sizes that differ; the    *)
(* first getsize raising; the second getsize raising (after the sleep).    *)
WaitAttempts == 5
SampleOutcomes == {"same", "differ", "error1", "error2"}
SleepsOf(sample) == IF sample = "error2" THEN 2 ELSE 1
NoWait == [attempts |-> 0, sleeps |-> 0, last |-> "none"]

(* The test of the loop without its bound: it goes on until two sizes      *)
(* agree.                                                                  *)
wait_continues_NoBound(attempts, last) == last # "same"

(* Whether another attempt follows: range(5) is not exhausted and the      *)
(* last attempt did not break.                                             *)
wait_continues(attempts, last) == attempts < WaitAttempts /\ last # "same"

(* One attempt: its sleeps, and what it found. *)
wait_attempt(w, sample) ==
    [attempts |-> w.attempts + 1, sleeps |-> w.sleeps + SleepsOf(sample),
     last |-> sample]

---------------------------------------------------------------------------
(* The record of the last call: its arguments, what it returned, what      *)
(* became of the os.rename it made, if it made one, the attempts and the  *)
(* sleeps of its stability wait, where the wait is followed, and, where    *)
(* other processes run during the call, the contents the directory held    *)
(* when the call began, less those the other processes removed since.      *)

NoRet ==
    [op |-> "none", filename |-> <<>>, tag |-> <<>>, ok |-> FALSE,
     name |-> <<>>, err |-> "", tagged |-> <<>>, untagged |-> <<>>,
     rename |-> "none", attempts |-> 0, sleeps |-> 0, last |-> "none",
     before |-> {}]

TagRet(filename, tag, r) ==
    [NoRet EXCEPT !.op = "tag_file", !.filename = filename, !.tag = tag,
                  !.ok = r.ok, !.name = r.name, !.err = r.err,
                  !.rename = r.rename]

(* tag_file is in its stability wait. *)
WaitingRet(filename, tag, w) ==
    [NoRet EXCEPT !.op = "tag_file_wait", !.filename = filename, !.tag = tag,
                  !.attempts = w.attempts, !.sleeps = w.sleeps, !.last = w.last]

(* tag_file has returned after its wait. *)
WaitRet(r0, r) ==
    [TagRet(r0.filename, r0.tag, r) EXCEPT !.attempts = r0.attempts,
                                           !.sleeps = r0.sleeps,
                                           !.last = r0.last]

ListRet(l) ==
    [NoRet EXCEPT !.op = "list_input_files", !.ok = TRUE,
                  !.tagged = l.tagged, !.untagged = l.untagged]

---------------------------------------------------------------------------
(* The environment: other processes create and delete entries of the input *)
(* directory.                                                              *)

(* An entry is [kind, id]: a regular file or a directory, and the identity *)
(* of what it holds, which is the name it was created under.               *)
ExtCreate(n, k) ==
    /\ n \notin DOMAIN files
    /\ Cardinality(DOMAIN files) < MaxFiles
    /\ files' = [m \in DOMAIN files \cup {n} |->
                    IF m = n THEN [kind |-> k, id |-> n] ELSE files[m]]
    /\ ret' = NoRet

ExtDelete(n) ==
    /\ n \in DOMAIN files
    /\ files' = [m \in DOMAIN files \ {n} |-> files[m]]
    /\ ret' = NoRet

(* fm.tag_file(project, delivery, filename, tag) *)
FmTagFile(filename, tag, outcome) ==
    LET r == tag_file(files, filename, tag, outcome)
    IN /\ files' = r.fs
       /\ ret' = TagRet(filename, tag, r)

(* fm.list_input_files(project, delivery) *)
FmListInputFiles ==
    /\ ret' = ListRet(list_input_files(files))
    /\ UNCHANGED files

---------------------------------------------------------------------------
(* The window.  NotebookLMSingleFolderApp.__init__ creates the directories *)
(* (empty at first), builds the widgets and calls refresh_all.             *)

Sentinel == <<40, 28961, 41>>       \* "(無)"
NoJob == 0                          \* None, for a handle of after()

(* What the handler run by the last step did that the user or the claims   *)
(* can see: notifications, blocking boxes, the argument and the age of the *)
(* callback, whether the clipboard was read and what was read, the calls   *)
(* of _export_content, the calls of exporter.export, the documents written *)
(* and whether the output folder was opened, the exception that left the   *)
(* handler, what it wrote to the log, and (for __init__) what the file     *)
(* system did when the directories were made.                              *)
NoOut ==
    [op |-> "none", toasts |-> <<>>, dialogs |-> <<>>, path |-> <<>>, age |-> 0,
     read |-> FALSE, content |-> <<>>, exports |-> <<>>, written |-> <<>>,
     opened |-> FALSE, exporter_calls |-> 0, raised |-> "none",
     logged |-> <<>>, setup |-> <<>>]

NoText == <<0>>     \* None, for a text

(* The history the claims about the monitor speak of, since it was armed:  *)
(* the texts the last polls read, the number of polls and the number of    *)
(* calls of _export_content they made.                                     *)
NoPolls == [reads |-> <<>>, n |-> 0, exports |-> 0]

Toast(o, msg) == [o EXCEPT !.toasts = @ \o <<msg>>]
Dialog(o, kind, msg) == [o EXCEPT !.dialogs = @ \o <<[kind |-> kind, text |-> msg]>>]
Handler(name) == [NoOut EXCEPT !.op = name]

(* The history the claims about the debounce speak of.  phase: no event   *)
(* yet, or events seen and no debounced refresh since ("burst"), or the    *)
(* refresh that followed them has run ("done").  since, req_since: the     *)
(* time since the last refresh-triggering event and since the last         *)
(* request of a refresh (not counted beyond the debounce delay).  events:  *)
(* the events of the burst (1, or 2 for more).  by_created: a delayed      *)
(* creation handler has requested a refresh after the last event.          *)
(* fired_at, fired_req: since and req_since when the refresh ran.          *)
NoBurst == [phase |-> "none", since |-> 0, req_since |-> 0, events |-> 0,
            by_created |-> FALSE, fired_at |-> 0, fired_req |-> 0]

(* The selections of project and delivery (two of them), the base paths,  *)
(* and the input directory of a selection under a base path.               *)
Sel == {1, 2}
Bases == {"base", "fallback"}
InputDir(base, sel) == [base |-> base, sel |-> sel]
NoWatch == [base |-> "none", sel |-> 0]

(* The observer's thread between two events: in no handler, holding no    *)
(* handle, having touched no attribute of the application.                 *)
WIdle == [pc |-> "idle", path |-> <<>>, job |-> NoJob, id |-> NoJob, touched |-> {}]

(* The state that does not depend on where the directories are. *)
InitApp ==
    /\ files = <<>>
    /\ ret = NoRet
    /\ out = NoOut
    /\ untagged_items = <<>>
    /\ combo_values = <<Sentinel>>
    /\ combo_review_var = Sentinel
    /\ prompt_display = <<>>
    /\ timers = {}
    /\ refresh_job = NoJob
    /\ processing = {}
    /\ burst = NoBurst
    /\ clipboard = [readable |-> TRUE, text |-> <<>>]
    /\ clipboard_auto_var = FALSE
    /\ clipboard_job = NoJob
    /\ last_clipboard = NoText
    /\ reply_display = <<>>
    /\ polls = NoPolls
    /\ wthread = WIdle

(* After __init__ with a writable base path: the directories exist, the    *)
(* first selection is shown, the observer runs and watches its directory.  *)
Init ==
    /\ InitApp
    /\ window = "open"
    /\ base_path = "base"
    /\ dirs = {InputDir("base", s) : s \in Sel}
    /\ selection = 1
    /\ observer = "running"
    /\ watch = InputDir("base", 1)

---------------------------------------------------------------------------
(* FileManager on its own: the tagger and the catalog. *)

NotFm == <<out, viewVars, prompt_display, watchVars, clipVars, lifeVars>>

NextTag ==
    \/ \E n \in Names : \E k \in Kinds(n) : ExtCreate(n, k) /\ UNCHANGED NotFm
    \/ \E n \in DOMAIN files : ExtDelete(n) /\ UNCHANGED NotFm
    \/ \E f \in BaseNames, t \in TagSet, o \in RenameOutcomes :
          FmTagFile(f, t, o) /\ UNCHANGED NotFm
    \/ FmListInputFiles /\ UNCHANGED NotFm

SpecTag == Init /\ [][NextTag]_vars

(* The tagger with its stability wait followed, statement by statement, on *)
(* the file a and its tagged names.  The file system answers each sampling *)
(* in any way; other processes leave the directory alone during the call.  *)
WaitNames == {<<97>>, TagStd \o <<97>>, TagRev \o <<97>>}
Waiting == ret.op = "tag_file_wait"

(* tag_file up to its loop: the two tests of existence. *)
TagEnter(filename, tag) ==
    /\ ~Waiting
    /\ IF filename \in DOMAIN files /\ (tag \o filename) \notin DOMAIN files
       THEN /\ ret' = WaitingRet(filename, tag, NoWait)
            /\ UNCHANGED files
       ELSE FmTagFile(filename, tag, "ok")

(* One attempt of the loop. *)
TagSample(sample) ==
    /\ Waiting
    /\ wait_continues(ret.attempts, ret.last)
    /\ ret.attempts < MaxSamples
    /\ ret' = WaitingRet(ret.filename, ret.tag, wait_attempt(ret, sample))
    /\ UNCHANGED files

(* The loop is left: os.rename and the return. *)
TagRename(outcome) ==
    LET r == tag_file(files, ret.filename, ret.tag, outcome)
    IN /\ Waiting
       /\ ~wait_continues(ret.attempts, ret.last)
       /\ files' = r.fs
       /\ ret' = WaitRet(ret, r)

NextWait ==
    \/ \E n \in WaitNames : ~Waiting /\ ExtCreate(n, "file") /\ UNCHANGED NotFm
    \/ \E n \in DOMAIN files : ~Waiting /\ ExtDelete(n) /\ UNCHANGED NotFm
    \/ \E t \in TagSet : TagEnter(<<97>>, t) /\ UNCHANGED NotFm
    \/ \E sample \in SampleOutcomes : TagSample(sample) /\ UNCHANGED NotFm
    \/ \E o \in RenameOutcomes : TagRename(o) /\ UNCHANGED NotFm

SpecWait == Init /\ [][NextWait]_vars

---------------------------------------------------------------------------
(* tag_file with other processes running between its statements: the two   *)
(* tests of existence are made once, before the loop, and os.rename is     *)
(* reached with the directory as the other processes have left it.         *)

Contents(fs) == {fs[n].id : n \in DOMAIN fs}

(* What os.rename does when the destination may be there: as before, or,   *)
(* with a file at the destination, "ok" replaces it (POSIX) and "exists"   *)
(* raises FileExistsError (Windows).                                       *)
RaceOutcomes == RenameOutcomes \cup {"exists"}

(* os.rename and the return, with no test before it: a missing source      *)
(* raises FileNotFoundError, which except Exception turns into str(e).     *)
rename_reached(fs, filename, tag, outcome) ==
    LET new_filename == tag \o filename
    IN IF filename \notin DOMAIN fs THEN RenameFailed(fs, MsgOSError, "failed")
       ELSE IF Raised(outcome) = "PermissionError"
            THEN RenameFailed(fs, MsgBusy, outcome)
       ELSE IF Raised(outcome) = "OSError"
            THEN RenameFailed(fs, StrOf(outcome), outcome)
       ELSE IF outcome = "exists"
            THEN RenameFailed(fs, MsgOSError, outcome)
       ELSE [ok |-> TRUE, name |-> new_filename, err |-> "",
             fs |-> Renamed(fs, filename, new_filename), rename |-> "ok"]

RaceNames == {<<97>>, <<98>>, TagRev \o <<97>>}

(* A step of another process: the directory it leaves and the contents it  *)
(* removed.                                                                *)
Other(fs, gone) ==
    /\ files' = fs
    /\ ret' = IF Waiting THEN [ret EXCEPT !.before = @ \ gone] ELSE NoRet

(* A content is known by the name it was created under, so a name is       *)
(* created again only once that content is gone.                           *)
RaceCreate(n) ==
    /\ n \notin DOMAIN files
    /\ n \notin Contents(files) \cup ret.before
    /\ Cardinality(DOMAIN files) < MaxFiles
    /\ Other([m \in DOMAIN files \cup {n} |->
                 IF m = n THEN [kind |-> "file", id |-> n] ELSE files[m]], {})

RaceDelete(n) ==
    /\ n \in DOMAIN files
    /\ Other([m \in DOMAIN files \ {n} |-> files[m]], {files[n].id})

(* Another process renames an entry to a name that is free. *)
RaceMove(old, new) ==
    /\ old \in DOMAIN files
    /\ new \notin DOMAIN files
    /\ Other(Renamed(files, old, new), {})

(* tag_file up to its loop. *)
RaceEnter(filename, tag) ==
    /\ ~Waiting
    /\ IF filename \in DOMAIN files /\ (tag \o filename) \notin DOMAIN files
       THEN /\ ret' = [WaitingRet(filename, tag, NoWait)
                          EXCEPT !.before = Contents(files)]
            /\ UNCHANGED files
       ELSE FmTagFile(filename, tag, "ok")

(* One attempt of the loop: getsize raises when the file is not there. *)
RaceSample(sample) ==
    /\ Waiting
    /\ wait_continues(ret.attempts, ret.last)
    /\ ret.filename \notin DOMAIN files => sample = "error1"
    /\ ret' = [WaitingRet(ret.filename, ret.tag, wait_attempt(ret, sample))
                  EXCEPT !.before = ret.before]
    /\ UNCHANGED files

(* The loop is left: os.rename and the return. *)
RaceRename(outcome) ==
    LET r == rename_reached(files, ret.filename, ret.tag, outcome)
    IN /\ Waiting
       /\ ~wait_continues(ret.attempts, ret.last)
       /\ outcome = "exists" => (ret.tag \o ret.filename) \in DOMAIN files
       /\ files' = r.fs
       /\ ret' = [WaitRet(ret, r) EXCEPT !.before = ret.before]

NextRace ==
    \/ \E n \in RaceNames : RaceCreate(n) /\ UNCHANGED NotFm
    \/ \E n \in DOMAIN files : RaceDelete(n) /\ UNCHANGED NotFm
    \/ \E old \in DOMAIN files, new \in RaceNames :
          RaceMove(old, new) /\ UNCHANGED NotFm
    \/ RaceEnter(<<97>>, TagRev) /\ UNCHANGED NotFm
    \/ \E sample \in SampleOutcomes : RaceSample(sample) /\ UNCHANGED NotFm
    \/ \E o \in RaceOutcomes : RaceRename(o) /\ UNCHANGED NotFm

SpecRace == Init /\ [][NextRace]_vars

---------------------------------------------------------------------------
(* The handlers of the window that the user starts. *)

(* [f for f in tagged if f.startswith(tag)] *)
WithTag(tagged, tag) == SelectSeq(tagged, LAMBDA f : StartsWith(f, tag))

(* refresh_review_combo that keeps the value shown while it is still      *)
(* offered.                                                                *)
refresh_review_combo_KeepsChoice(tagged) ==
    LET review == WithTag(tagged, TagRev)
    IN IF review # <<>>
       THEN [values |-> review,
             value |-> IF combo_review_var \in Range(review)
                       THEN combo_review_var ELSE review[1]]
       ELSE [values |-> <<Sentinel>>, value |-> Sentinel]

(* refresh_review_combo: the values of the combo and the value it is set   *)
(* to, which is the first 【待審】 file or the sentinel.                     *)
refresh_review_combo(tagged) ==
    LET review == WithTag(tagged, TagRev)
    IN IF review # <<>>
       THEN [values |-> review, value |-> review[1]]
       ELSE [values |-> <<Sentinel>>, value |-> Sentinel]

(* refresh_all: list the directory, rebuild the untagged rows and the      *)
(* combo.  (The tagged text box and the status bar only display.)          *)
refresh_all_of(fs) ==
    LET l == list_input_files(fs)
        c == refresh_review_combo(l.tagged)
    IN /\ untagged_items' = l.untagged
       /\ combo_values' = c.values
       /\ combo_review_var' = c.value

(* refresh_all in a step that leaves the directory as it is. *)
refresh_all == refresh_all_of(files)

Line(kind, name) == [kind |-> kind, name |-> name]

(* The bullets of a list, without the placeholder of an empty one. *)
Bullets_NoPlaceholder(names) ==
    [i \in 1..Len(names) |-> Line("bullet", names[i])]

(* "\n".join(f"- {x}" for x in names or ["(無)"]) *)
Bullets(names) ==
    LET shown == IF names = <<>> THEN <<Sentinel>> ELSE names
    IN [i \in 1..Len(shown) |-> Line("bullet", shown[i])]

(* The f-string of generate_prompt, line by line. *)
build_prompt(std, tpl, tgt) ==
    <<Line("review_target", tgt), Line("blank", <<>>), Line("title_std", <<>>)>>
    \o Bullets(std)
    \o <<Line("blank", <<>>), Line("title_tpl", <<>>)>>
    \o Bullets(tpl)
    \o <<Line("blank", <<>>), Line("please_output", <<>>),
         Line("item_1_deviations", <<>>), Line("item_2_risks", <<>>),
         Line("item_3_suggestions", <<>>), Line("item_4_confirm", <<>>)>>

(* generate_prompt without its test of the sentinel. *)
generate_prompt_NoTargetTest(std, tpl, tgt) ==
    [prompt |-> build_prompt(std, tpl, tgt),
     out |-> Toast(Handler("generate_prompt"), "prompt_generated")]

(* generate_prompt after it has refreshed the combo: the new text of the   *)
(* prompt box, or the old one, and what is shown to the user.              *)
generate_prompt(std, tpl, tgt) ==
    IF tgt = Sentinel
    THEN [prompt |-> prompt_display,
          out |-> Dialog(Handler("generate_prompt"), "showwarning", "no_review_file")]
    ELSE [prompt |-> build_prompt(std, tpl, tgt),
          out |-> Toast(Handler("generate_prompt"), "prompt_generated")]

GeneratePrompt ==
    LET l == list_input_files(files)
        c == refresh_review_combo(l.tagged)
        g == generate_prompt(WithTag(l.tagged, TagStd), WithTag(l.tagged, TagTpl),
                             c.value)
    IN /\ combo_values' = c.values
       /\ combo_review_var' = c.value
       /\ prompt_display' = g.prompt
       /\ out' = g.out
       /\ ret' = NoRet
       /\ UNCHANGED <<files, untagged_items, watchVars, clipVars, lifeVars>>

ClearPrompt ==
    /\ prompt_display' = <<>>
    /\ out' = Toast(Handler("clear_prompt"), "prompt_cleared")
    /\ ret' = NoRet
    /\ UNCHANGED <<files, viewVars, watchVars, clipVars, lifeVars>>

(* The user picks a value of combo_review (disabled while it offers only   *)
(* the sentinel).                                                          *)
SelectReview(v) ==
    /\ combo_values # <<Sentinel>>
    /\ v \in Range(combo_values)
    /\ v # combo_review_var
    /\ combo_review_var' = v
    /\ out' = Handler("select_review")
    /\ ret' = NoRet
    /\ UNCHANGED <<files, untagged_items, combo_values, prompt_display, watchVars, clipVars, lifeVars>>

(* The refresh button. *)
RefreshAll ==
    /\ refresh_all
    /\ out' = Handler("refresh_all")
    /\ ret' = NoRet
    /\ UNCHANGED <<files, prompt_display, watchVars, clipVars, lifeVars>>

(* NotebookLMSingleFolderApp.tag_file, started by a tag button of a row of *)
(* the untagged panel.                                                     *)
AppTagFile(filename, tag, outcome) ==
    LET r == tag_file(files, filename, tag, outcome)
    IN /\ filename \in Range(untagged_items)
       /\ files' = r.fs
       /\ ret' = TagRet(filename, tag, r)
       /\ IF r.ok
          THEN /\ out' = Toast(Handler("tag_file"), "tagged")
               /\ refresh_all_of(r.fs)
          ELSE /\ out' = Dialog(Handler("tag_file"), "showerror", r.err)
               /\ UNCHANGED viewVars
       /\ UNCHANGED <<prompt_display, watchVars, clipVars, lifeVars>>

(* Other processes, while the window is open. *)
AppNames == {<<97>>, <<12304, 97>>, TagStd \o <<97>>, TagRev \o <<97>>}

AppExtCreate(n) ==
    /\ Cardinality(DOMAIN files) < MaxAppFiles
    /\ ExtCreate(n, "file")
    /\ out' = NoOut
    /\ UNCHANGED <<viewVars, prompt_display, watchVars, clipVars, lifeVars>>

AppExtDelete(n) ==
    /\ ExtDelete(n)
    /\ out' = NoOut
    /\ UNCHANGED <<viewVars, prompt_display, watchVars, clipVars, lifeVars>>

NextApp ==
    \/ \E n \in AppNames : AppExtCreate(n)
    \/ \E n \in DOMAIN files : AppExtDelete(n)
    \/ RefreshAll
    \/ \E f \in BaseNames, t \in TagSet, o \in RenameOutcomes : AppTagFile(f, t, o)
    \/ \E v \in Names \cup {t \o n : t \in TagSet, n \in BaseNames} : SelectReview(v)
    \/ GeneratePrompt
    \/ ClearPrompt

SpecApp == Init /\ [][NextApp]_vars

(* The prompt builder on its own: directories that hold up to two files    *)
(* under each tag.                                                         *)
PromptNames == {t \o n : t \in TagSet, n \in {<<97>>, <<98>>}}

PromptExtCreate(n) ==
    /\ ExtCreate(n, "file")
    /\ out' = NoOut
    /\ UNCHANGED <<viewVars, prompt_display, watchVars, clipVars, lifeVars>>

NextPrompt ==
    \/ \E n \in PromptNames : PromptExtCreate(n)
    \/ \E n \in DOMAIN files : AppExtDelete(n)
    \/ \E v \in PromptNames : SelectReview(v)
    \/ RefreshAll
    \/ GeneratePrompt

SpecPrompt == Init /\ [][NextPrompt]_vars

---------------------------------------------------------------------------
(* Tk's after() queue.  A pending callback is [id, cb, path, rem, age]:    *)
(* the handle after() returned, the callback and its argument, the time    *)
(* left until it is due and the time since it was scheduled.  The event    *)
(* loop is idle between callbacks, so a callback runs when it is due.      *)

DebounceMs == 300       \* schedule_refresh(300) of the event handlers
CreatedRefreshMs == 200 \* schedule_refresh(200) of handle_file
CreatedDelayMs == 800   \* app.after(800, ...) of on_created

Ids(ts) == {t.id : t \in ts}

(* A handle that no pending callback and no stored handle carries. *)
NewId(ts, held) ==
    LET used == Ids(ts) \cup held \cup {wthread.job, wthread.id}
    IN CHOOSE i \in 1..(Cardinality(used) + 1) :
           /\ i \notin used
           /\ \A j \in 1..(i - 1) : j \in used

After(ts, id, cb, path, ms) ==
    ts \cup {[id |-> id, cb |-> cb, path |-> path, rem |-> ms, age |-> 0]}

AfterCancel(ts, id) == {t \in ts : t.id # id}

Due(ts) == {t \in ts : t.rem = 0}

Elapse(ts, ms) ==
    {[t EXCEPT !.rem = IF @ > ms THEN @ - ms ELSE 0,
               !.age = IF @ + ms < CreatedDelayMs THEN @ + ms ELSE CreatedDelayMs]
        : t \in ts}

RefreshTimers(ts) == {t \in ts : t.cb = "_run_refresh"}
HandleTimers(ts, p) == {t \in ts : t.cb = "handle_file" /\ t.path = p}

(* schedule_refresh that leaves the pending timer in the queue. *)
schedule_refresh_NoCancel(ts, job, delay_ms) ==
    LET id == NewId(ts, {job, clipboard_job})
    IN [timers |-> After(ts, id, "_run_refresh", <<>>, delay_ms), job |-> id]

(* schedule_refresh: the queue and self._refresh_job it leaves. *)
schedule_refresh(ts, job, delay_ms) ==
    LET kept == IF job # NoJob THEN AfterCancel(ts, job) ELSE ts
        id == NewId(ts, {job, clipboard_job})
    IN [timers |-> After(kept, id, "_run_refresh", <<>>, delay_ms), job |-> id]

---------------------------------------------------------------------------
(* AutoTagHandler.  A filesystem event is [path, is_directory].            *)

(* handle_file without its test that the file still exists. *)
handle_file_NoExistsTest(fs, ts, job, proc, filepath) ==
    LET s == schedule_refresh(ts, job, CreatedRefreshMs)
    IN [toasts |-> <<"new_file">>, timers |-> s.timers, job |-> s.job,
        processing |-> proc \ {filepath}, requested |-> TRUE]

(* handle_file: the notification, the queue, self._refresh_job and the     *)
(* in-flight set it leaves.                                                *)
handle_file(fs, ts, job, proc, filepath) ==
    IF filepath \notin DOMAIN fs
    THEN [toasts |-> <<>>, timers |-> ts, job |-> job,
          processing |-> proc \ {filepath}, requested |-> FALSE]
    ELSE LET s == schedule_refresh(ts, job, CreatedRefreshMs)
         IN [toasts |-> <<"new_file">>, timers |-> s.timers, job |-> s.job,
             processing |-> proc \ {filepath}, requested |-> TRUE]

(* on_created without its test of the in-flight set. *)
on_created_NoInFlightTest(ts, job, proc, path, is_directory) ==
    IF is_directory \/ is_skip_file(path)
    THEN [timers |-> ts, processing |-> proc]
    ELSE [timers |-> After(ts, NewId(ts, {job, clipboard_job}), "handle_file", path, CreatedDelayMs),
          processing |-> proc \cup {path}]

(* on_created: the in-flight set and the queue it leaves. *)
on_created(ts, job, proc, path, is_directory) ==
    IF is_directory \/ is_skip_file(path) \/ path \in proc
    THEN [timers |-> ts, processing |-> proc]
    ELSE [timers |-> After(ts, NewId(ts, {job, clipboard_job}), "handle_file", path, CreatedDelayMs),
          processing |-> proc \cup {path}]

(* on_modified: whether it requests a refresh. *)
on_modified(path, is_directory) == ~is_directory /\ ~is_skip_file(path)

(* on_moved and on_deleted: whether they request a refresh. *)
on_moved(path, is_directory) == ~is_directory
on_deleted(path, is_directory) == ~is_directory

Capped(ms) == IF ms < DebounceMs THEN ms ELSE DebounceMs

(* The history after a refresh-triggering event, after a request by        *)
(* handle_file, after the debounced refresh, after time has passed.        *)
BurstEvent(b) ==
    [b EXCEPT !.phase = "burst", !.since = 0, !.req_since = 0,
              !.events = IF b.phase = "burst" THEN 2 ELSE 1,
              !.by_created = FALSE, !.fired_at = 0, !.fired_req = 0]

BurstCreated(b) ==
    IF b.phase = "burst" THEN [b EXCEPT !.req_since = 0, !.by_created = TRUE] ELSE b

BurstFired(b) ==
    IF b.phase = "burst"
    THEN [b EXCEPT !.phase = "done", !.fired_at = b.since, !.fired_req = b.req_since,
                   !.since = 0, !.req_since = 0]
    ELSE b

BurstElapse(b, ms) ==
    IF b.phase = "burst"
    THEN [b EXCEPT !.since = Capped(@ + ms), !.req_since = Capped(@ + ms)]
    ELSE b

(* An event handler that requests a refresh, or does not. *)
RequestRefresh(wanted) ==
    IF wanted
    THEN LET s == schedule_refresh(timers, refresh_job, DebounceMs)
         IN /\ timers' = s.timers
            /\ refresh_job' = s.job
            /\ burst' = BurstEvent(burst)
    ELSE UNCHANGED <<timers, refresh_job, burst>>

IsDir(n) == files[n].kind = "dir"

(* The names of the events: a, and a.tmp (which a download is renamed      *)
(* from).                                                                  *)
WatchNames == {<<97>>, <<97, 46, 116, 109, 112>>}

(* Another process creates an entry: on_created. *)
FsCreated(n, k) ==
    LET c == on_created(timers, refresh_job, processing, n, k = "dir")
    IN /\ Cardinality(DOMAIN files) < MaxAppFiles
       /\ ExtCreate(n, k)
       /\ timers' = c.timers
       /\ processing' = c.processing
       /\ out' = Handler("on_created")
       /\ UNCHANGED <<viewVars, prompt_display, clipVars, lifeVars, refresh_job, burst>>

(* Another process writes to an entry: on_modified. *)
FsModified(n) ==
    /\ n \in DOMAIN files
    /\ RequestRefresh(on_modified(n, IsDir(n)))
    /\ out' = Handler("on_modified")
    /\ ret' = NoRet
    /\ UNCHANGED <<files, viewVars, prompt_display, clipVars, lifeVars, processing>>

(* Another process renames an entry inside the directory: on_moved. *)
FsMoved(n, m) ==
    /\ n \in DOMAIN files
    /\ m \notin DOMAIN files
    /\ files' = Renamed(files, n, m)
    /\ RequestRefresh(on_moved(n, IsDir(n)))
    /\ out' = Handler("on_moved")
    /\ ret' = NoRet
    /\ UNCHANGED <<viewVars, prompt_display, clipVars, lifeVars, processing>>

(* Another process deletes an entry: on_deleted. *)
FsDeleted(n) ==
    /\ ExtDelete(n)
    /\ RequestRefresh(on_deleted(n, IsDir(n)))
    /\ out' = Handler("on_deleted")
    /\ UNCHANGED <<viewVars, prompt_display, clipVars, lifeVars, processing>>

(* The callback scheduled by on_created runs. *)
HandleFile(t) ==
    LET rest == timers \ {t}
        h == handle_file(files, rest, refresh_job, processing, t.path)
    IN /\ t \in Due(timers)
       /\ t.cb = "handle_file"
       /\ timers' = h.timers
       /\ refresh_job' = h.job
       /\ processing' = h.processing
       /\ burst' = IF h.requested THEN BurstCreated(burst) ELSE burst
       /\ out' = [Handler("handle_file") EXCEPT !.toasts = h.toasts,
                                                !.path = t.path, !.age = t.age]
       /\ ret' = NoRet
       /\ UNCHANGED <<files, viewVars, prompt_display, clipVars, lifeVars>>

(* _run_refresh, the callback scheduled by schedule_refresh, runs. *)
RunRefresh(t) ==
    /\ t \in Due(timers)
    /\ t.cb = "_run_refresh"
    /\ timers' = timers \ {t}
    /\ refresh_job' = NoJob
    /\ refresh_all
    /\ burst' = BurstFired(burst)
    /\ out' = [Handler("_run_refresh") EXCEPT !.age = t.age]
    /\ ret' = NoRet
    /\ UNCHANGED <<files, prompt_display, clipVars, lifeVars, processing>>

(* 100 ms pass with no callback due. *)
Tick ==
    /\ Due(timers) = {}
    /\ timers' = Elapse(timers, 100)
    /\ burst' = BurstElapse(burst, 100)
    /\ out' = NoOut
    /\ ret' = NoRet
    /\ UNCHANGED <<files, viewVars, prompt_display, clipVars, lifeVars, refresh_job, processing>>

NextWatch ==
    \/ \E n \in WatchNames : \E k \in Kinds(n) : FsCreated(n, k)
    \/ \E n \in WatchNames : FsModified(n)
    \/ \E n, m \in WatchNames : FsMoved(n, m)
    \/ \E n \in WatchNames : FsDeleted(n)
    \/ \E t \in timers : HandleFile(t)
    \/ \E t \in timers : RunRefresh(t)
    \/ Tick

SpecWatch == Init /\ [][NextWatch]_vars

---------------------------------------------------------------------------
(* The clipboard monitor.  A text is the sequence of its code points; the  *)
(* clipboard holds a text or something clipboard_get() cannot return as    *)
(* one.                                                                    *)

ImmediatePollMs == 10       \* delay = 10 if immediate
clipboard_poll_ms == 700    \* self._clipboard_poll_ms

Whitespace == {9, 10, 32}

RECURSIVE lstrip(_)
lstrip(s) == IF s # <<>> /\ Head(s) \in Whitespace THEN lstrip(Tail(s)) ELSE s

RECURSIVE rstrip(_)
rstrip(s) ==
    IF s # <<>> /\ s[Len(s)] \in Whitespace
    THEN rstrip(SubSeq(s, 1, Len(s) - 1))
    ELSE s

strip(s) == rstrip(lstrip(s))

ClipA == <<65>>
ClipB == <<66>>
Clipboards ==
    {[readable |-> TRUE, text |-> x] : x \in {<<>>, ClipA, ClipA \o <<32>>, ClipB}}
    \cup {[readable |-> FALSE, text |-> <<>>]}

get_clipboard_text(cb) == IF ~cb.readable THEN <<>> ELSE strip(cb.text)

PollTimers(ts) == {t \in ts : t.cb = "_poll_clipboard"}

(* _export_content that reports every failure by a notification. *)
export_content_ToastOnly(o, content, tgt, open_dir, show_error_dialog, export_ok, open_ok) ==
    LET call == [o EXCEPT !.exports = Append(@, content)]
        tried == [call EXCEPT !.exporter_calls = @ + 1]
        saved == [Toast(tried, "exported") EXCEPT
                     !.written = Append(@, [name |-> tgt, content |-> content])]
    IN IF content = <<>> THEN Toast(call, "empty_content")
       ELSE IF tgt = Sentinel THEN Toast(call, "no_review_file")
       ELSE IF ~export_ok THEN Toast(tried, "export_failed")
       ELSE IF ~open_dir THEN saved
       ELSE IF open_ok THEN [saved EXCEPT !.opened = TRUE]
       ELSE Toast(saved, "export_failed")

(* _export_content, added to what the running handler has done so far.     *)
(* export_ok: exporter.export returns a path rather than raising; open_ok: *)
(* open_folder returns rather than raising.  Both are inside the try, so   *)
(* a failure of open_folder is reported as a failed export although the    *)
(* document is written and its notification shown.                         *)
export_content(o, content, tgt, open_dir, show_error_dialog, export_ok, open_ok) ==
    LET call == [o EXCEPT !.exports = Append(@, content)]
        tried == [call EXCEPT !.exporter_calls = @ + 1]
        saved == [Toast(tried, "exported") EXCEPT
                     !.written = Append(@, [name |-> tgt, content |-> content])]
        notice(x, kind, msg) ==
            IF show_error_dialog THEN Dialog(x, kind, msg) ELSE Toast(x, msg)
    IN IF content = <<>> THEN notice(call, "showwarning", "empty_content")
       ELSE IF tgt = Sentinel THEN notice(call, "showwarning", "no_review_file")
       ELSE IF ~export_ok THEN notice(tried, "showerror", "export_failed")
       ELSE IF ~open_dir THEN saved
       ELSE IF open_ok THEN [saved EXCEPT !.opened = TRUE]
       ELSE notice(saved, "showerror", "export_failed")

(* _schedule_clipboard_poll that drops the handle after() returns. *)
schedule_clipboard_poll_NoStore(ts, job, immediate) ==
    LET kept == IF job # NoJob THEN AfterCancel(ts, job) ELSE ts
        id == NewId(ts, {job, refresh_job})
        delay == IF immediate THEN ImmediatePollMs ELSE clipboard_poll_ms
    IN [timers |-> After(kept, id, "_poll_clipboard", <<>>, delay), job |-> NoJob]

(* _schedule_clipboard_poll: the queue and self._clipboard_job it leaves. *)
schedule_clipboard_poll(ts, job, immediate) ==
    LET kept == IF job # NoJob THEN AfterCancel(ts, job) ELSE ts
        id == NewId(ts, {job, refresh_job})
        delay == IF immediate THEN ImmediatePollMs ELSE clipboard_poll_ms
    IN [timers |-> After(kept, id, "_poll_clipboard", <<>>, delay), job |-> id]

(* toggle_clipboard_watch that forgets the pending poll without            *)
(* cancelling it.                                                          *)
toggle_clipboard_watch_NoCancel(ts, job, last, on) ==
    IF on
    THEN LET s == schedule_clipboard_poll(ts, job, TRUE)
         IN [timers |-> s.timers, job |-> s.job, last |-> NoText,
             toast |-> "watch_on"]
    ELSE [timers |-> ts, job |-> NoJob, last |-> last, toast |-> "watch_off"]

(* toggle_clipboard_watch that keeps self._last_clipboard on arming. *)
toggle_clipboard_watch_KeepsLast(ts, job, last, on) ==
    IF on
    THEN LET s == schedule_clipboard_poll(ts, job, TRUE)
         IN [timers |-> s.timers, job |-> s.job, last |-> last,
             toast |-> "watch_on"]
    ELSE [timers |-> IF job # NoJob THEN AfterCancel(ts, job) ELSE ts,
          job |-> NoJob, last |-> last, toast |-> "watch_off"]

(* toggle_clipboard_watch, with the new value of the checkbox: the queue,  *)
(* self._clipboard_job and self._last_clipboard it leaves, and its         *)
(* notification.                                                           *)
toggle_clipboard_watch(ts, job, last, on) ==
    IF on
    THEN LET s == schedule_clipboard_poll(ts, job, TRUE)
         IN [timers |-> s.timers, job |-> s.job, last |-> NoText,
             toast |-> "watch_on"]
    ELSE [timers |-> IF job # NoJob THEN AfterCancel(ts, job) ELSE ts,
          job |-> NoJob, last |-> last, toast |-> "watch_off"]

(* _poll_clipboard that exports whatever non-empty text it reads. *)
poll_clipboard_NoLastTest(ts, last, reply, on, cb, tgt, export_ok) ==
    LET o0 == Handler("_poll_clipboard")
        content == get_clipboard_text(cb)
        o1 == [o0 EXCEPT !.read = TRUE, !.content = content]
        s == schedule_clipboard_poll(ts, NoJob, FALSE)
    IN IF ~on
       THEN [timers |-> ts, job |-> NoJob, last |-> last, reply |-> reply,
             out |-> o0]
       ELSE IF content # <<>>
            THEN [timers |-> s.timers, job |-> s.job, last |-> content,
                  reply |-> content,
                  out |-> export_content(o1, content, tgt, FALSE, FALSE, export_ok, TRUE)]
            ELSE [timers |-> s.timers, job |-> s.job, last |-> last,
                  reply |-> reply, out |-> o1]

(* _poll_clipboard that returns when its export has failed. *)
poll_clipboard_StopOnFailure(ts, last, reply, on, cb, tgt, export_ok) ==
    LET o0 == Handler("_poll_clipboard")
        content == get_clipboard_text(cb)
        o1 == [o0 EXCEPT !.read = TRUE, !.content = content]
        s == schedule_clipboard_poll(ts, NoJob, FALSE)
        e == export_content(o1, content, tgt, FALSE, FALSE, export_ok, TRUE)
    IN IF ~on
       THEN [timers |-> ts, job |-> NoJob, last |-> last, reply |-> reply,
             out |-> o0]
       ELSE IF content # <<>> /\ content # last
            THEN IF e.written = <<>>
                 THEN [timers |-> ts, job |-> NoJob, last |-> content,
                       reply |-> content, out |-> e]
                 ELSE [timers |-> s.timers, job |-> s.job, last |-> content,
                       reply |-> content, out |-> e]
            ELSE [timers |-> s.timers, job |-> s.job, last |-> last,
                  reply |-> reply, out |-> o1]

(* _poll_clipboard that sets last-seen only when the export succeeded. *)
poll_clipboard_RollsBack(ts, last, reply, on, cb, tgt, export_ok) ==
    LET o0 == Handler("_poll_clipboard")
        content == get_clipboard_text(cb)
        o1 == [o0 EXCEPT !.read = TRUE, !.content = content]
        s == schedule_clipboard_poll(ts, NoJob, FALSE)
        e == export_content(o1, content, tgt, FALSE, FALSE, export_ok, TRUE)
    IN IF ~on
       THEN [timers |-> ts, job |-> NoJob, last |-> last, reply |-> reply,
             out |-> o0]
       ELSE IF content # <<>> /\ content # last
            THEN [timers |-> s.timers, job |-> s.job,
                  last |-> IF e.written = <<>> THEN last ELSE content,
                  reply |-> content, out |-> e]
            ELSE [timers |-> s.timers, job |-> s.job, last |-> last,
                  reply |-> reply, out |-> o1]

(* _poll_clipboard, run from the queue ts it has left: the queue,          *)
(* self._clipboard_job, self._last_clipboard and the reply box it leaves,  *)
(* and what it did.                                                        *)
poll_clipboard(ts, last, reply, on, cb, tgt, export_ok) ==
    LET o0 == Handler("_poll_clipboard")
        content == get_clipboard_text(cb)
        o1 == [o0 EXCEPT !.read = TRUE, !.content = content]
        s == schedule_clipboard_poll(ts, NoJob, FALSE)
    IN IF ~on
       THEN [timers |-> ts, job |-> NoJob, last |-> last, reply |-> reply,
             out |-> o0]
       ELSE IF content # <<>> /\ content # last
            THEN [timers |-> s.timers, job |-> s.job, last |-> content,
                  reply |-> content,
                  out |-> export_content(o1, content, tgt, FALSE, FALSE, export_ok, TRUE)]
            ELSE [timers |-> s.timers, job |-> s.job, last |-> last,
                  reply |-> reply, out |-> o1]

LastOf(s, k) == IF Len(s) <= k THEN s ELSE SubSeq(s, Len(s) - k + 1, Len(s))

Polled(h, o) ==
    [reads |-> LastOf(Append(h.reads, o.content), MaxPolls),
     n |-> Min(h.n + 1, MaxPolls + 1),
     exports |-> Min(h.exports + Len(o.exports), MaxPolls)]

(* The user clicks the checkbox of the monitor: Tk flips                   *)
(* clipboard_auto_var and calls toggle_clipboard_watch.                    *)
ToggleClipboardWatch ==
    LET on == ~clipboard_auto_var
        r == toggle_clipboard_watch(timers, clipboard_job, last_clipboard, on)
    IN /\ clipboard_auto_var' = on
       /\ timers' = r.timers
       /\ clipboard_job' = r.job
       /\ last_clipboard' = r.last
       /\ polls' = IF on THEN NoPolls ELSE polls
       /\ out' = Toast(Handler("toggle_clipboard_watch"), r.toast)
       /\ ret' = NoRet
       /\ UNCHANGED <<files, viewVars, prompt_display, lifeVars, refresh_job, processing,
                      burst, clipboard, reply_display>>

(* _poll_clipboard, the callback scheduled by _schedule_clipboard_poll,    *)
(* runs.                                                                   *)
PollClipboard(t, export_ok) ==
    LET r == poll_clipboard(timers \ {t}, last_clipboard, reply_display,
                            clipboard_auto_var, clipboard, combo_review_var,
                            export_ok)
    IN /\ t \in Due(timers)
       /\ t.cb = "_poll_clipboard"
       /\ timers' = r.timers
       /\ clipboard_job' = r.job
       /\ last_clipboard' = r.last
       /\ reply_display' = r.reply
       /\ polls' = IF r.out.read THEN Polled(polls, r.out) ELSE polls
       /\ out' = r.out
       /\ ret' = NoRet
       /\ UNCHANGED <<files, viewVars, prompt_display, lifeVars, refresh_job, processing,
                      burst, clipboard, clipboard_auto_var>>

(* Another program, or the user, copies something. *)
ClipboardCopy(c) ==
    /\ c # clipboard
    /\ clipboard' = c
    /\ out' = NoOut
    /\ ret' = NoRet
    /\ UNCHANGED <<files, viewVars, prompt_display, watchVars, lifeVars,
                   clipboard_auto_var, clipboard_job, last_clipboard,
                   reply_display, polls>>

(* Time passes until the next callback is due. *)
TickToDue ==
    /\ timers # {}
    /\ Due(timers) = {}
    /\ \E t \in timers :
          /\ \A u \in timers : t.rem <= u.rem
          /\ timers' = Elapse(timers, t.rem)
    /\ out' = NoOut
    /\ ret' = NoRet
    /\ UNCHANGED <<files, viewVars, prompt_display, clipVars, lifeVars, refresh_job,
                   processing, burst>>

ReviewName == TagRev \o <<97>>

NextClip ==
    \/ ToggleClipboardWatch
    \/ \E t \in timers : \E export_ok \in BOOLEAN : PollClipboard(t, export_ok)
    \/ \E c \in Clipboards : ClipboardCopy(c)
    \/ TickToDue
    \/ AppExtCreate(ReviewName)
    \/ AppExtDelete(ReviewName)
    \/ RefreshAll

SpecClip == Init /\ [][NextClip]_vars

---------------------------------------------------------------------------
(* The export buttons and the reply box, next to the monitor.              *)

(* What the user types or pastes into the reply box. *)
ReplyTexts == {<<32>>, ClipB \o <<10>>}

notClipVars == <<files, viewVars, prompt_display, watchVars, lifeVars>>

(* export_word: the button that exports the reply box. *)
ExportWord(export_ok, open_ok) ==
    LET content == strip(reply_display)
    IN /\ out' = export_content(Handler("export_word"), content, combo_review_var,
                                TRUE, TRUE, export_ok, open_ok)
       /\ ret' = NoRet
       /\ UNCHANGED <<notClipVars, clipVars, lifeVars>>

(* export_word_from_clipboard: the button that exports the clipboard. *)
ExportWordFromClipboard(export_ok, open_ok) ==
    LET content == get_clipboard_text(clipboard)
        o == Handler("export_word_from_clipboard")
    IN /\ IF content = <<>>
          THEN /\ out' = Dialog(o, "showwarning", "clipboard_empty")
               /\ UNCHANGED reply_display
          ELSE /\ reply_display' = content
               /\ out' = export_content(o, content, combo_review_var,
                                        TRUE, TRUE, export_ok, open_ok)
       /\ ret' = NoRet
       /\ UNCHANGED <<notClipVars, clipboard, clipboard_auto_var, clipboard_job,
                      last_clipboard, polls>>

ClearReply ==
    /\ reply_display' = <<>>
    /\ out' = Toast(Handler("clear_reply"), "reply_cleared")
    /\ ret' = NoRet
    /\ UNCHANGED <<notClipVars, clipboard, clipboard_auto_var, clipboard_job,
                   last_clipboard, polls>>

(* The user edits the reply box. *)
EditReply(x) ==
    /\ x # reply_display
    /\ reply_display' = x
    /\ out' = NoOut
    /\ ret' = NoRet
    /\ UNCHANGED <<notClipVars, clipboard, clipboard_auto_var, clipboard_job,
                   last_clipboard, polls>>

NextExport ==
    \/ NextClip
    \/ \E export_ok, open_ok \in BOOLEAN : ExportWord(export_ok, open_ok)
    \/ \E export_ok, open_ok \in BOOLEAN : ExportWordFromClipboard(export_ok, open_ok)
    \/ ClearReply
    \/ \E x \in ReplyTexts : EditReply(x)

SpecExport == Init /\ [][NextExport]_vars

---------------------------------------------------------------------------
(* Startup, the change of the selection and teardown.                      *)

(* What os.makedirs does under a base path: it succeeds, or raises         *)
(* PermissionError, or raises another OSError (a read-only file system, a  *)
(* file in the way, a full disk).                                          *)
EnsureOutcomes == {"ok", "PermissionError", "OSError"}

(* What observer.schedule does for a directory that is missing: the        *)
(* emitter raises OSError, or (on a platform that does not look) installs  *)
(* a watch that reports nothing.                                           *)
ScheduleOutcomes == {"raises", "silent"}

(* FileManager.ensure_structure under a base path. *)
ensure_structure(ds, base) == ds \cup {InputDir(base, s) : s \in Sel}

(* _ensure_structure: e is what fm.ensure_structure does under the         *)
(* original base path, f what it does under the fallback.  The base path,  *)
(* the directories, the exception that leaves the method, the log and the  *)
(* boxes shown.                                                            *)
app_ensure_structure(ds, e, f) ==
    IF e = "ok"
    THEN [base |-> "base", dirs |-> ensure_structure(ds, "base"),
          raised |-> "none", logged |-> <<>>, dialogs |-> <<>>]
    ELSE IF e # "PermissionError"
    THEN [base |-> "base", dirs |-> ds, raised |-> e, logged |-> <<>>,
          dialogs |-> <<>>]
    ELSE IF f = "ok"
    THEN [base |-> "fallback", dirs |-> ensure_structure(ds, "fallback"),
          raised |-> "none", logged |-> <<"base_path_unwritable">>,
          dialogs |-> <<[kind |-> "showwarning", text |-> "fallback_used"]>>]
    ELSE [base |-> "fallback", dirs |-> ds, raised |-> f,
          logged |-> <<"base_path_unwritable">>, dialogs |-> <<>>]

(* _restart_watchdog: the watch it leaves and the exception that leaves    *)
(* it.  unschedule_all has removed the old watch when schedule raises.     *)
restart_watchdog(obs, w, ds, base, sel, sched) ==
    IF obs # "running" THEN [watch |-> w, raised |-> "none"]
    ELSE IF InputDir(base, sel) \in ds
    THEN [watch |-> InputDir(base, sel), raised |-> "none"]
    ELSE IF sched = "raises" THEN [watch |-> NoWatch, raised |-> "OSError"]
    ELSE [watch |-> NoWatch, raised |-> "none"]

(* destroy: the queue, self._clipboard_job and the observer it leaves.     *)
(* The callbacks it does not cancel stay in the queue of the interpreter.  *)
destroy(ts, job, obs) ==
    [timers |-> IF job # NoJob THEN AfterCancel(ts, job) ELSE ts,
     job |-> NoJob,
     observer |-> IF obs = "running" THEN "stopped" ELSE obs]

(* Before __init__: no window, no observer, no directory. *)
InitBoot ==
    /\ InitApp
    /\ window = "none"
    /\ base_path = "base"
    /\ dirs = {}
    /\ selection = 1
    /\ observer = "none"
    /\ watch = NoWatch

(* __init__: _ensure_structure, the widgets, refresh_all, _start_watchdog. *)
(* An exception that leaves _ensure_structure leaves __init__ too, and no  *)
(* window opens.                                                           *)
Boot(e, f) ==
    LET r == app_ensure_structure(dirs, e, f)
        o == [Handler("__init__") EXCEPT !.raised = r.raised,
                 !.logged = r.logged, !.dialogs = r.dialogs,
                 !.setup = IF e = "PermissionError" THEN <<e, f>> ELSE <<e>>]
    IN /\ window = "none"
       /\ base_path' = r.base
       /\ dirs' = r.dirs
       /\ out' = o
       /\ ret' = NoRet
       /\ IF r.raised # "none"
          THEN /\ window' = "aborted"
               /\ UNCHANGED <<viewVars, observer, watch>>
          ELSE /\ window' = "open"
               /\ refresh_all
               /\ observer' = "running"
               /\ watch' = restart_watchdog("running", watch, r.dirs, r.base,
                                            selection, "raises").watch
       /\ UNCHANGED <<files, prompt_display, watchVars, clipVars, selection, wthread>>

(* on_selection_change, after the user has picked another project or       *)
(* delivery: refresh_all, then _restart_watchdog.  (The directories hold   *)
(* no files where this is used.)                                           *)
SelectionChange(s, sched) ==
    LET r == restart_watchdog(observer, watch, dirs, base_path, s, sched)
    IN /\ window = "open"
       /\ s # selection
       /\ selection' = s
       /\ refresh_all
       /\ watch' = r.watch
       /\ out' = [Handler("on_selection_change") EXCEPT !.raised = r.raised]
       /\ ret' = NoRet
       /\ UNCHANGED <<files, prompt_display, watchVars, clipVars, window,
                      base_path, dirs, observer, wthread>>

(* The user removes or restores the folder of a selection that is not      *)
(* shown.                                                                  *)
RemoveDir(s) ==
    /\ window = "open"
    /\ s # selection
    /\ InputDir(base_path, s) \in dirs
    /\ dirs' = dirs \ {InputDir(base_path, s)}
    /\ out' = NoOut
    /\ ret' = NoRet
    /\ UNCHANGED <<files, viewVars, prompt_display, watchVars, clipVars,
                   window, base_path, selection, observer, watch, wthread>>

MakeDir(s) ==
    /\ window = "open"
    /\ InputDir(base_path, s) \notin dirs
    /\ dirs' = dirs \cup {InputDir(base_path, s)}
    /\ out' = NoOut
    /\ ret' = NoRet
    /\ UNCHANGED <<files, viewVars, prompt_display, watchVars, clipVars,
                   window, base_path, selection, observer, watch, wthread>>

(* The user closes the window: destroy. *)
Destroy ==
    LET r == destroy(timers, clipboard_job, observer)
    IN /\ window = "open"
       /\ window' = "destroyed"
       /\ timers' = r.timers
       /\ clipboard_job' = r.job
       /\ observer' = r.observer
       /\ watch' = NoWatch
       /\ out' = Handler("destroy")
       /\ ret' = NoRet
       /\ UNCHANGED <<files, viewVars, prompt_display, refresh_job, processing,
                      burst, clipboard, clipboard_auto_var, last_clipboard,
                      reply_display, polls, base_path, dirs, selection,
                      wthread>>

Open(A) == window = "open" /\ A

NextBoot ==
    \/ \E e, f \in EnsureOutcomes : Boot(e, f)
    \/ \E s \in Sel : \E sched \in ScheduleOutcomes : SelectionChange(s, sched)
    \/ \E s \in Sel : RemoveDir(s)
    \/ \E s \in Sel : MakeDir(s)
    \/ Open(ToggleClipboardWatch)
    \/ Open(\E t \in timers : PollClipboard(t, TRUE))
    \/ Open(TickToDue)
    \/ Destroy

SpecBoot == InitBoot /\ [][NextBoot]_vars

(* Time passes, up to 100 ms and no further than the next callback. *)
TickUpTo ==
    /\ timers # {}
    /\ Due(timers) = {}
    /\ \E t \in timers :
          /\ \A u \in timers : t.rem <= u.rem
          /\ timers' = Elapse(timers, Min(100, t.rem))
          /\ burst' = BurstElapse(burst, Min(100, t.rem))
    /\ out' = NoOut
    /\ ret' = NoRet
    /\ UNCHANGED <<files, viewVars, prompt_display, clipVars, lifeVars,
                   refresh_job, processing>>

(* The open window with its watcher and its monitor, until it is closed. *)
NextTeardown ==
    \/ Open(FsCreated(<<97>>, "file"))
    \/ Open(FsModified(<<97>>))
    \/ Open(\E t \in timers : HandleFile(t))
    \/ Open(\E t \in timers : RunRefresh(t))
    \/ Open(ToggleClipboardWatch)
    \/ Open(\E t \in timers : PollClipboard(t, TRUE))
    \/ Open(TickUpTo)
    \/ Destroy

SpecTeardown == Init /\ [][NextTeardown]_vars

---------------------------------------------------------------------------
(* The watcher across a change of selection.  files holds here the entries *)
(* of the input directories of both selections; a is created in the        *)
(* directory of selection 1 only and b in that of selection 2 only, so     *)
(* that a name stands for one full path.  The observer reports what        *)
(* happens in the directory it watches and nothing else; refresh_all lists *)
(* the directory of the selection; os.path.exists in handle_file is asked  *)
(* about the full path the event carried.                                  *)
ScopeNames == {<<97>>, <<98>>}
DirOf(n) == InputDir(base_path, IF n = <<97>> THEN 1 ELSE 2)
FilesIn(d) == [n \in {m \in DOMAIN files : DirOf(m) = d} |-> files[n]]
Watched(n) == observer = "running" /\ watch = DirOf(n)

(* Another process creates an entry: on_created when the directory is      *)
(* watched.                                                                *)
ScopeCreated(n) ==
    IF Watched(n)
    THEN FsCreated(n, "file")
    ELSE /\ Cardinality(DOMAIN files) < MaxAppFiles
         /\ ExtCreate(n, "file")
         /\ out' = NoOut
         /\ UNCHANGED <<viewVars, prompt_display, watchVars, clipVars, lifeVars>>

(* Another process deletes an entry: on_deleted when the directory is      *)
(* watched.                                                                *)
ScopeDeleted(n) ==
    IF Watched(n)
    THEN FsDeleted(n)
    ELSE /\ ExtDelete(n)
         /\ out' = NoOut
         /\ UNCHANGED <<viewVars, prompt_display, watchVars, clipVars, lifeVars>>

(* on_selection_change: refresh_all for the new selection, then            *)
(* _restart_watchdog.  The callbacks in the queue stay there.              *)
ScopeSelectionChange(s) ==
    LET r == restart_watchdog(observer, watch, dirs, base_path, s, "ok")
    IN /\ s # selection
       /\ selection' = s
       /\ refresh_all_of(FilesIn(InputDir(base_path, s)))
       /\ watch' = r.watch
       /\ out' = [Handler("on_selection_change") EXCEPT !.raised = r.raised]
       /\ ret' = NoRet
       /\ UNCHANGED <<files, prompt_display, watchVars, clipVars, window,
                      base_path, dirs, observer, wthread>>

(* _run_refresh for the selection. *)
ScopeRunRefresh(t) ==
    /\ t \in Due(timers)
    /\ t.cb = "_run_refresh"
    /\ timers' = timers \ {t}
    /\ refresh_job' = NoJob
    /\ refresh_all_of(FilesIn(InputDir(base_path, selection)))
    /\ burst' = BurstFired(burst)
    /\ out' = [Handler("_run_refresh") EXCEPT !.age = t.age]
    /\ ret' = NoRet
    /\ UNCHANGED <<files, prompt_display, clipVars, lifeVars, processing>>

NextScope ==
    \/ \E n \in ScopeNames : ScopeCreated(n)
    \/ \E n \in DOMAIN files : ScopeDeleted(n)
    \/ \E s \in Sel : ScopeSelectionChange(s)
    \/ \E t \in timers : HandleFile(t)
    \/ \E t \in timers : ScopeRunRefresh(t)
    \/ TickUpTo

SpecScope == Init /\ [][NextScope]_vars

---------------------------------------------------------------------------
(* The review selector between the refreshes and the exports: a directory  *)
(* with an untagged file and up to two review files, the refresh button,   *)
(* the tag button, the debounced refresh of the watcher, the choice of the *)
(* user and the export button.                                             *)
ReviewNames == {<<97>>, TagRev \o <<97>>, TagRev \o <<98>>}
ReviewReply == ClipB \o <<10>>

NextReview ==
    \/ \E n \in ReviewNames : PromptExtCreate(n)
    \/ \E n \in DOMAIN files : AppExtDelete(n)
    \/ RefreshAll
    \/ \E v \in ReviewNames : SelectReview(v)
    \/ \E o \in {"ok", "locked"} : AppTagFile(<<97>>, TagRev, o)
    \/ \E n \in DOMAIN files : FsModified(n)
    \/ \E t \in timers : RunRefresh(t)
    \/ Tick
    \/ EditReply(ReviewReply)
    \/ \E export_ok \in BOOLEAN : ExportWord(export_ok, TRUE)

SpecReview == Init /\ [][NextReview]_vars

---------------------------------------------------------------------------
(* app.tag_file with the stability wait of fm.tag_file followed.  A tag    *)
(* button calls it on the UI thread, and time.sleep runs there: while the  *)
(* call is in its wait the event loop handles no click and runs no         *)
(* callback, and the time slept passes for the callbacks in the queue.     *)
SleepMs == 100      \* time.sleep(0.1)

(* The click on a tag button of a row: tag_file up to its loop, or all of  *)
(* it when one of its tests of existence fails.                            *)
BlockTagEnter(filename, tag) ==
    /\ ~Waiting
    /\ filename \in Range(untagged_items)
    /\ IF filename \in DOMAIN files /\ (tag \o filename) \notin DOMAIN files
       THEN /\ ret' = WaitingRet(filename, tag, NoWait)
            /\ out' = Handler("tag_file")
            /\ UNCHANGED <<files, viewVars, prompt_display, watchVars,
                           clipVars, lifeVars>>
       ELSE AppTagFile(filename, tag, "ok")

(* One attempt of the loop, with its sleeps. *)
BlockTagSample(sample) ==
    /\ Waiting
    /\ wait_continues(ret.attempts, ret.last)
    /\ ret.attempts < MaxSamples
    /\ ret' = WaitingRet(ret.filename, ret.tag, wait_attempt(ret, sample))
    /\ timers' = Elapse(timers, SleepMs * SleepsOf(sample))
    /\ burst' = BurstElapse(burst, SleepMs * SleepsOf(sample))
    /\ out' = Handler("tag_file")
    /\ UNCHANGED <<files, viewVars, prompt_display, clipVars, lifeVars,
                   refresh_job, processing>>

(* os.rename, the return of fm.tag_file and the rest of app.tag_file. *)
BlockTagRename(outcome) ==
    LET r == tag_file(files, ret.filename, ret.tag, outcome)
    IN /\ Waiting
       /\ ~wait_continues(ret.attempts, ret.last)
       /\ files' = r.fs
       /\ ret' = WaitRet(ret, r)
       /\ IF r.ok
          THEN /\ out' = Toast(Handler("tag_file"), "tagged")
               /\ refresh_all_of(r.fs)
          ELSE /\ out' = Dialog(Handler("tag_file"), "showerror", r.err)
               /\ UNCHANGED viewVars
       /\ UNCHANGED <<prompt_display, watchVars, clipVars, lifeVars>>

(* A callback that is due runs. *)
RunDue ==
    \E t \in timers : PollClipboard(t, TRUE)

(* The event loop is free: the UI thread is in no handler. *)
Free(A) == ~Waiting /\ A

NextBlock ==
    \/ Free(AppExtCreate(<<97>>))
    \/ Free(RefreshAll)
    \/ Free(ToggleClipboardWatch)
    \/ Free(RunDue)
    \/ Free(TickToDue)
    \/ BlockTagEnter(<<97>>, TagRev)
    \/ \E sample \in SampleOutcomes : BlockTagSample(sample)
    \/ \E o \in RenameOutcomes : BlockTagRename(o)

SpecBlock == Init /\ [][NextBlock]_vars

---------------------------------------------------------------------------
(* The observer's thread and the UI thread side by side.  watchdog calls   *)
(* on_created, on_modified and on_deleted on the observer's thread, one    *)
(* event at a time, and the handlers run their statements there: the test  *)
(* and the update of self.processing, and the body of schedule_refresh     *)
(* with its reads and its write of self._refresh_job.  A call of after or  *)
(* after_cancel made there is handed to the Tk event loop, which runs it   *)
(* between two callbacks of its own; the callbacks of the UI thread        *)
(* (handle_file, _run_refresh) run as before.  wthread is [pc, path, job,  *)
(* id, touched]: the statement the thread is at, the path of the event,    *)
(* the handle it has read and the handle after() has returned to it, and   *)
(* the attributes of the handler and of the window that it has read or     *)
(* written during the handler it is in.                                    *)

WStart(pc, path) == [WIdle EXCEPT !.pc = pc, !.path = path]
WTouch(w, attr) == [w EXCEPT !.touched = @ \cup {attr}]

(* The thread is between two events, and the queue has room for the        *)
(* callbacks of another one.                                               *)
WIsIdle == wthread.pc = "idle" /\ Cardinality(timers) < MaxPending

(* The handler returns: its locals are gone. *)
WReturn(w) == [WIdle EXCEPT !.touched = w.touched]

notWatcher == <<viewVars, prompt_display, clipVars, window, base_path, dirs,
                selection, observer, watch, burst>>

(* Another process creates a file: the thread enters on_created and        *)
(* passes its tests of the event.                                          *)
WCreated(n) ==
    /\ WIsIdle
    /\ Cardinality(DOMAIN files) < MaxAppFiles
    /\ ExtCreate(n, "file")
    /\ wthread' = IF is_skip_file(n) THEN WIdle ELSE WStart("created_test", n)
    /\ out' = NoOut
    /\ UNCHANGED <<notWatcher, timers, refresh_job, processing>>

(* Another process writes to a file: on_modified, up to its call of        *)
(* schedule_refresh(300).                                                  *)
WModified(n) ==
    /\ WIsIdle
    /\ n \in DOMAIN files
    /\ wthread' = IF on_modified(n, IsDir(n))
                  THEN WStart("refresh_test", n) ELSE WIdle
    /\ out' = NoOut
    /\ ret' = NoRet
    /\ UNCHANGED <<files, notWatcher, timers, refresh_job, processing>>

(* Another process deletes a file: on_deleted, up to its call of           *)
(* schedule_refresh(300).                                                  *)
WDeleted(n) ==
    /\ WIsIdle
    /\ n \in DOMAIN files
    /\ wthread' = IF on_deleted(n, IsDir(n))
                  THEN WStart("refresh_test", n) ELSE WIdle
    /\ ExtDelete(n)
    /\ out' = NoOut
    /\ UNCHANGED <<notWatcher, timers, refresh_job, processing>>

(* `filepath in self.processing` *)
WCreatedTest ==
    /\ wthread.pc = "created_test"
    /\ wthread' = IF wthread.path \in processing
                  THEN WReturn(WTouch(wthread, "processing"))
                  ELSE [WTouch(wthread, "processing") EXCEPT !.pc = "created_add"]
    /\ UNCHANGED <<timers, refresh_job, processing>>

(* self.processing.add(filepath) *)
WCreatedAdd ==
    /\ wthread.pc = "created_add"
    /\ processing' = processing \cup {wthread.path}
    /\ wthread' = [WTouch(wthread, "processing") EXCEPT !.pc = "created_after"]
    /\ UNCHANGED <<timers, refresh_job>>

(* self.app.after(800, ...), run by the event loop for the thread. *)
WCreatedAfter ==
    /\ wthread.pc = "created_after"
    /\ timers' = After(timers, NewId(timers, {refresh_job, clipboard_job}),
                       "handle_file", wthread.path, CreatedDelayMs)
    /\ wthread' = WReturn(wthread)
    /\ UNCHANGED <<refresh_job, processing>>

(* `if self._refresh_job:` *)
WRefreshTest ==
    /\ wthread.pc = "refresh_test"
    /\ wthread' = [WTouch(wthread, "_refresh_job") EXCEPT
                      !.pc = IF refresh_job # NoJob
                             THEN "refresh_arg" ELSE "refresh_after"]
    /\ UNCHANGED <<timers, refresh_job, processing>>

(* The argument of after_cancel, self._refresh_job read again; after_cancel *)
(* raises ValueError for None, which ends the handler.                     *)
WRefreshArg ==
    /\ wthread.pc = "refresh_arg"
    /\ wthread' = [WTouch(wthread, "_refresh_job") EXCEPT
                      !.job = refresh_job,
                      !.pc = IF refresh_job # NoJob
                             THEN "refresh_cancel" ELSE "raised",
                      !.path = IF refresh_job # NoJob THEN @ ELSE <<>>]
    /\ UNCHANGED <<timers, refresh_job, processing>>

(* after_cancel(id), run by the event loop for the thread. *)
WRefreshCancel ==
    /\ wthread.pc = "refresh_cancel"
    /\ timers' = AfterCancel(timers, wthread.job)
    /\ wthread' = [wthread EXCEPT !.pc = "refresh_after"]
    /\ UNCHANGED <<refresh_job, processing>>

(* self.after(delay_ms, self._run_refresh), run by the event loop for the  *)
(* thread, which receives the handle.                                      *)
WRefreshAfter ==
    LET id == NewId(timers, {refresh_job, clipboard_job})
    IN /\ wthread.pc = "refresh_after"
       /\ timers' = After(timers, id, "_run_refresh", <<>>, DebounceMs)
       /\ wthread' = [wthread EXCEPT !.pc = "refresh_store", !.id = id]
       /\ UNCHANGED <<refresh_job, processing>>

(* self._refresh_job = <the handle> *)
WRefreshStore ==
    /\ wthread.pc = "refresh_store"
    /\ refresh_job' = wthread.id
    /\ wthread' = WReturn(WTouch(wthread, "_refresh_job"))
    /\ UNCHANGED <<timers, processing>>

(* The next statement of the handler the thread is in. *)
WStep ==
    /\ \/ WCreatedTest
       \/ WCreatedAdd
       \/ WCreatedAfter
       \/ WRefreshTest
       \/ WRefreshArg
       \/ WRefreshCancel
       \/ WRefreshAfter
       \/ WRefreshStore
    /\ out' = NoOut
    /\ ret' = NoRet
    /\ UNCHANGED <<files, notWatcher>>

ThreadNames == {<<97>>}

(* Time passes between two events only: a handler takes no time that the   *)
(* timers could measure.                                                   *)
WTick ==
    /\ wthread.pc \in {"idle", "raised"}
    /\ Tick

NextThreads ==
    \/ \E n \in ThreadNames : WCreated(n)
    \/ \E n \in ThreadNames : WModified(n)
    \/ \E n \in ThreadNames : WDeleted(n)
    \/ WStep
    \/ \E t \in timers : HandleFile(t)
    \/ \E t \in timers : RunRefresh(t)
    \/ WTick

SpecThreads == Init /\ [][NextThreads]_vars

---------------------------------------------------------------------------
(* handle_file when a call inside its try raises: show_notification or     *)
(* schedule_refresh (a TclError of a widget or of the queue).  The except  *)
(* clause logs the exception and the finally clause discards the path.     *)
HandleRaises == {"show_notification", "schedule_refresh"}

(* handle_file without its finally clause. *)
handle_file_raising_NoFinally(ts, job, proc, filepath, at) ==
    [toasts |-> IF at = "schedule_refresh" THEN <<"new_file">> ELSE <<>>,
     timers |-> ts, job |-> job, processing |-> proc,
     logged |-> <<"handle_file_error">>]

handle_file_raising(ts, job, proc, filepath, at) ==
    [toasts |-> IF at = "schedule_refresh" THEN <<"new_file">> ELSE <<>>,
     timers |-> ts, job |-> job, processing |-> proc \ {filepath},
     logged |-> <<"handle_file_error">>]

(* The callback of a creation event runs for a file that exists, and a     *)
(* call it makes raises.                                                   *)
HandleFileRaises(t, at) ==
    LET h == handle_file_raising(timers \ {t}, refresh_job, processing, t.path, at)
    IN /\ t \in Due(timers)
       /\ t.cb = "handle_file"
       /\ t.path \in DOMAIN files
       /\ timers' = h.timers
       /\ refresh_job' = h.job
       /\ processing' = h.processing
       /\ out' = [Handler("handle_file") EXCEPT !.toasts = h.toasts,
                     !.path = t.path, !.age = t.age, !.logged = h.logged]
       /\ ret' = NoRet
       /\ UNCHANGED <<files, viewVars, prompt_display, clipVars, lifeVars, burst>>

(* The two threads with a handle_file that may raise.  The event loop runs *)
(* a callback that is due, the observer's thread goes on with the handler  *)
(* it is in, and time passes.                                              *)
RunHandleFile ==
    \E t \in timers : HandleFile(t) \/ \E at \in HandleRaises : HandleFileRaises(t, at)

NextFlight ==
    \/ \E n \in ThreadNames : WCreated(n)
    \/ \E n \in ThreadNames : WModified(n)
    \/ \E n \in ThreadNames : WDeleted(n)
    \/ WStep
    \/ RunHandleFile
    \/ \E t \in timers : RunRefresh(t)
    \/ WTick

SpecFlight ==
    /\ Init
    /\ [][NextFlight]_vars
    /\ WF_vars(WStep)
    /\ WF_vars(RunHandleFile)
    /\ WF_vars(\E t \in timers : RunRefresh(t))
    /\ SF_vars(WTick)

---------------------------------------------------------------------------
(* The tagger and the catalog: claims C1 to C5, under SpecTag.             *)

IsTagCall(r) == r.op = "tag_file"
IsListing(r) == r.op = "list_input_files"
Dest(r) == r.tag \o r.filename

(* C1, as claimed: every call of tag_file made while tag+filename exists   *)
(* in the directory returns Conflict and leaves the directory as it was.   *)
C1_Original ==
    [][(IsTagCall(ret') /\ Dest(ret') \in DOMAIN files)
          => (~ret'.ok /\ ret'.err = MsgConflict /\ files' = files)]_vars

(* C1, amended: every call of tag_file made while both filename and        *)
(* tag+filename exist in the directory returns Conflict, renames nothing,  *)
(* and leaves the source and the destination as they were.                 *)
C1_ConflictKeepsBoth ==
    [][(/\ IsTagCall(ret')
        /\ ret'.filename \in DOMAIN files
        /\ Dest(ret') \in DOMAIN files)
          => (~ret'.ok /\ ret'.err = MsgConflict /\ files' = files)]_vars

C1_Witness ==
    /\ IsTagCall(ret)
    /\ ret.err = MsgConflict
    /\ ret.filename \in DOMAIN files
    /\ Dest(ret) \in DOMAIN files
    /\ files[ret.filename].id # files[Dest(ret)].id

(* C2, as claimed: when tag_file returns success the returned name is      *)
(* tag+filename, the entry exists under that name and no longer under      *)
(* filename, and the listing of the directory has tag+filename in its      *)
(* tagged list and filename in neither list.                               *)
C2_Original ==
    (IsTagCall(ret) /\ ret.ok) =>
        LET l == list_input_files(files)
        IN /\ ret.name = ret.tag \o ret.filename
           /\ ret.name \in DOMAIN files
           /\ ret.filename \notin DOMAIN files
           /\ ret.name \in Range(l.tagged)
           /\ ret.filename \notin Range(l.tagged) \cup Range(l.untagged)

(* C2, amended: when tag_file returns success the returned name is         *)
(* tag+filename, the entry exists under that name and no longer under      *)
(* filename, the listing has filename in neither list, and it has          *)
(* tag+filename in its tagged list if the entry is a regular file whose    *)
(* name does not end with .tmp, and in neither list otherwise.             *)
C2_TagSuccess ==
    (IsTagCall(ret) /\ ret.ok) =>
        LET l == list_input_files(files)
            listed == Range(l.tagged) \cup Range(l.untagged)
        IN /\ ret.name = ret.tag \o ret.filename
           /\ ret.name \in DOMAIN files
           /\ ret.filename \notin DOMAIN files
           /\ ret.filename \notin listed
           /\ IF files[ret.name].kind = "file" /\ ~EndsWith(ret.name, <<46, 116, 109, 112>>)
              THEN ret.name \in Range(l.tagged)
              ELSE ret.name \notin listed

C2_Witness ==
    /\ IsTagCall(ret)
    /\ ret.ok
    /\ ret.filename = <<97>>
    /\ ret.tag = TagRev
    /\ list_input_files(files).tagged = <<TagRev \o <<97>>>>
    /\ list_input_files(files).untagged = <<>>

(* C3: a call of tag_file for a name that is not in the directory returns  *)
(* NotFound (a return value, not an exception) and changes no entry.       *)
C3_NotFound ==
    [][(IsTagCall(ret') /\ ret'.filename \notin DOMAIN files)
          => (~ret'.ok /\ ret'.err = MsgNotFound /\ files' = files)]_vars

C3_Witness ==
    /\ IsTagCall(ret)
    /\ ret.err = MsgNotFound
    /\ ret.filename \notin DOMAIN files
    /\ DOMAIN files # {}

(* The skip rule and the tag prefixes as the claims word them. *)
SkipEligible(f) ==
    \/ (Len(f) >= 2 /\ f[1] = 126 /\ f[2] = 36)
    \/ (Len(f) >= 1 /\ f[1] = 46)
    \/ (Len(f) >= 4 /\ SubSeq(f, Len(f) - 3, Len(f)) = <<46, 116, 109, 112>>)

RecognizedPrefixes ==
    { <<12304, 27161, 28310, 12305>>, <<12304, 31684, 26412, 12305>>,
      <<12304, 24453, 23529, 12305>> }

PrefixesOf(f) == {p \in RecognizedPrefixes : StartsWith(f, p)}

Ascending(s) == \A i \in 1..(Len(s) - 1) : StrLess(s[i], s[i + 1])

(* C4: with N regular files in the directory, M of them skip-eligible, the *)
(* listing holds exactly the N-M others, each once across the two lists,   *)
(* no skip-eligible or non-regular entry, each list in ascending order.    *)
C4_Listing ==
    IsListing(ret) =>
        LET regular == {f \in DOMAIN files : files[f].kind = "file"}
            skipped == {f \in regular : SkipEligible(f)}
        IN /\ Range(ret.tagged) \cup Range(ret.untagged) = regular \ skipped
           /\ Range(ret.tagged) \cap Range(ret.untagged) = {}
           /\ Len(ret.tagged) + Len(ret.untagged)
                 = Cardinality(regular) - Cardinality(skipped)
           /\ Ascending(ret.tagged)
           /\ Ascending(ret.untagged)

C4_Witness ==
    /\ IsListing(ret)
    /\ Cardinality(DOMAIN files) = 3
    /\ \E f \in DOMAIN files : files[f].kind = "file" /\ SkipEligible(f)
    /\ Len(ret.untagged) = 2

(* C5: a listed entry is in the tagged list iff its name begins with one   *)
(* of the three tag prefixes, every other listed entry is in the untagged  *)
(* list, and no listed name begins with more than one of the prefixes.     *)
C5_Partition ==
    IsListing(ret) =>
        \A f \in Range(ret.tagged) \cup Range(ret.untagged) :
            /\ f \in Range(ret.tagged) <=> PrefixesOf(f) # {}
            /\ f \in Range(ret.untagged) <=> PrefixesOf(f) = {}
            /\ Cardinality(PrefixesOf(f)) <= 1

C5_Witness ==
    /\ IsListing(ret)
    /\ \E f \in Range(ret.tagged) : StartsWith(f, TagStd \o TagTpl)
    /\ \E f \in Range(ret.untagged) : f[1] = 12304

(* C13, as claimed: when the rename fails because the file is locked or in *)
(* use, tag_file returns failure with Busy; when it fails for any other    *)
(* reason, tag_file returns failure with the message of the error.         *)
C13_Original ==
    IsTagCall(ret) =>
        /\ ret.rename = "locked" => (~ret.ok /\ ret.err = MsgBusy)
        /\ ret.rename \in {"denied", "failed"} =>
              (~ret.ok /\ ret.err = StrOf(ret.rename))

---------------------------------------------------------------------------
(* Prompt generation: claim C10, under SpecApp.                            *)

(* C10: when generate_prompt finds the target to be the sentinel, it shows *)
(* the user a notice (one warning box), produces no prompt and leaves the  *)
(* text of the prompt box as it was.                                       *)
C10_NoTarget ==
    [][(out'.op = "generate_prompt" /\ combo_review_var' = Sentinel)
          => /\ prompt_display' = prompt_display
             /\ out'.dialogs = <<[kind |-> "showwarning", text |-> "no_review_file"]>>
             /\ out'.toasts = <<>>]_vars

C10_Witness ==
    /\ out.op = "generate_prompt"
    /\ combo_review_var = Sentinel
    /\ out.dialogs # <<>>
    /\ prompt_display # <<>>
    /\ DOMAIN files # {}

(* The prompt builder: claim C11, under SpecPrompt.                        *)

IndexOf(p, kind) == CHOOSE i \in 1..Len(p) : p[i].kind = kind
CountOf(p, kind) == Cardinality({i \in 1..Len(p) : p[i].kind = kind})
BulletNames(ls) == [i \in 1..Len(ls) |-> ls[i].name]
Shown(names) == IF names = <<>> THEN <<Sentinel>> ELSE names
Checklist ==
    <<"item_1_deviations", "item_2_risks", "item_3_suggestions", "item_4_confirm">>

(* The prompt p is the one for std, tpl and tgt: it opens with the line of *)
(* the target, lists std and tpl in order under their titles, one bullet   *)
(* per name, with the placeholder iff the list is empty, and ends with the *)
(* four items of the checklist.                                            *)
IsPromptFor(p, std, tpl, tgt) ==
    /\ Len(p) = 11 + Len(Shown(std)) + Len(Shown(tpl))
    /\ p[1] = [kind |-> "review_target", name |-> tgt]
    /\ \A k \in {"review_target", "title_std", "title_tpl", "please_output"} :
          CountOf(p, k) = 1
    /\ LET s == IndexOf(p, "title_std")
           t == IndexOf(p, "title_tpl")
           o == IndexOf(p, "please_output")
           stdLines == SubSeq(p, s + 1, t - 2)
           tplLines == SubSeq(p, t + 1, o - 2)
       IN /\ s < t /\ t < o
          /\ \A i \in 1..Len(stdLines) : stdLines[i].kind = "bullet"
          /\ \A i \in 1..Len(tplLines) : tplLines[i].kind = "bullet"
          /\ BulletNames(stdLines) = Shown(std)
          /\ BulletNames(tplLines) = Shown(tpl)
          /\ (Sentinel \in Range(BulletNames(stdLines))) <=> (std = <<>>)
          /\ (Sentinel \in Range(BulletNames(tplLines))) <=> (tpl = <<>>)
          /\ [i \in 1..4 |-> p[o + i].kind] = Checklist
          /\ Len(p) = o + 4

(* C11: after generate_prompt with a target that is not the sentinel, the  *)
(* prompt box holds the prompt for the 【標準】 files, the 【範本】 files and  *)
(* the target: the target name, one bullet per file, the placeholder in    *)
(* place of a list exactly when it is empty, and the four-item checklist;  *)
(* so it is a function of these three alone.                               *)
C11_Prompt ==
    (out.op = "generate_prompt" /\ combo_review_var # Sentinel) =>
        LET tagged == list_input_files(files).tagged
        IN IsPromptFor(prompt_display, WithTag(tagged, TagStd),
                       WithTag(tagged, TagTpl), combo_review_var)

(* One standard, no template: a bullet and a placeholder. *)
C11_Witness ==
    /\ out.op = "generate_prompt"
    /\ combo_review_var = TagRev \o <<98>>
    /\ WithTag(list_input_files(files).tagged, TagStd) = <<TagStd \o <<97>>>>
    /\ WithTag(list_input_files(files).tagged, TagTpl) = <<>>
    /\ Len(prompt_display) = 13

---------------------------------------------------------------------------
(* The watcher: claims C6 and C9, under SpecWatch.                         *)

OneRefreshPending == Cardinality(RefreshTimers(timers)) = 1

C9_Step ==
    out'.op = "handle_file" =>
        /\ out'.age >= 800
        /\ out'.path \notin processing'
        /\ IF out'.path \in DOMAIN files
           THEN /\ out'.toasts = <<"new_file">>
                /\ \E t \in timers' :
                      /\ RefreshTimers(timers') = {t}
                      /\ t.rem = 200 /\ t.age = 0
                      /\ refresh_job' = t.id
           ELSE /\ out'.toasts = <<>>
                /\ RefreshTimers(timers') = RefreshTimers(timers)
                /\ refresh_job' = refresh_job

C9_InFlight ==
    \A p \in WatchNames :
        Cardinality(HandleTimers(timers, p)) = IF p \in processing THEN 1 ELSE 0

C9_Created == []C9_InFlight /\ [][C9_Step]_vars

C9_Witness ==
    /\ out.op = "handle_file"
    /\ out.toasts = <<"new_file">>
    /\ burst.phase = "burst"
    /\ burst.by_created
    /\ burst.since < 300

---------------------------------------------------------------------------
(* The clipboard monitor: claims C7 and C8, under SpecClip.                *)

PrevRead == IF polls.reads = <<>> THEN NoText ELSE polls.reads[Len(polls.reads)]

(* C7: while the monitor stays armed, a poll that reads the non-empty text *)
(* the poll before it read makes no export attempt, and a poll that reads  *)
(* a non-empty text different from the last-seen value makes one export    *)
(* attempt, for that text.                                                 *)
C7_Step ==
    (out'.op = "_poll_clipboard" /\ out'.read) =>
        LET c == out'.content
        IN /\ (c # <<>> /\ c = PrevRead) => out'.exports = <<>>
           /\ (c # <<>> /\ c # last_clipboard) =>
                 (out'.exports = <<c>> /\ last_clipboard' = c)

C7_Dedupe == [][C7_Step]_vars

(* Armed, then polls reading A, A and B: two export attempts. *)
C7_Witness ==
    /\ clipboard_auto_var
    /\ out.op = "_poll_clipboard"
    /\ polls.n = 3
    /\ polls.reads = <<ClipA, ClipA, ClipB>>
    /\ polls.exports = 2
    /\ out.exports = <<ClipB>>

(* C8: disabling the monitor cancels the pending poll; while it is         *)
(* disabled no poll is pending, and a poll would not read the clipboard,   *)
(* change last-seen or the reply, export or schedule another poll.         *)
C8_NonePending ==
    ~clipboard_auto_var => (clipboard_job = NoJob /\ PollTimers(timers) = {})

C8_Cancel ==
    (clipboard_auto_var /\ ~clipboard_auto_var') =>
        /\ PollTimers(timers) # {}
        /\ PollTimers(timers') = {}
        /\ clipboard_job' = NoJob

C8_Quiet ==
    (~clipboard_auto_var /\ ~clipboard_auto_var') =>
        /\ ~out'.read
        /\ out'.exports = <<>>
        /\ PollTimers(timers') = {}
        /\ last_clipboard' = last_clipboard
        /\ reply_display' = reply_display

C8_Disabled == []C8_NonePending /\ [][C8_Cancel /\ C8_Quiet]_vars

(* Disabled after two polls, the second of which exported. *)
C8_Witness ==
    /\ ~clipboard_auto_var
    /\ out.op = "toggle_clipboard_watch"
    /\ polls.n = 2
    /\ polls.exports = 1
    /\ last_clipboard = ClipA
    /\ reply_display = ClipA

---------------------------------------------------------------------------
(* The exports: claim C12, under SpecExport.                               *)

OneDialog(o, kind) ==
    /\ Len(o.dialogs) = 1
    /\ o.dialogs[1].kind = kind
    /\ o.toasts = <<>>

OneToast(o, msgs) ==
    /\ Len(o.toasts) = 1
    /\ o.toasts[1] \in msgs
    /\ o.dialogs = <<>>

(* An export started by a button, with the content it exports. *)
C12_User(content) ==
    /\ (content = <<>> \/ combo_review_var = Sentinel) =>
          /\ OneDialog(out', "showwarning")
          /\ out'.exporter_calls = 0
          /\ out'.written = <<>>
    /\ (out'.exporter_calls = 1 /\ out'.written = <<>>) =>
          OneDialog(out', "showerror")
    /\ out'.written = <<>> => out'.dialogs # <<>>

(* C12: an export that fails is reported by a blocking box when a button   *)
(* started it and by one notification, never a box, when a poll of the     *)
(* clipboard started it; with empty content or the sentinel as target the  *)
(* exporter is not called and nothing is written.                          *)
C12_Step ==
    /\ out'.op = "export_word" => C12_User(strip(reply_display))
    /\ out'.op = "export_word_from_clipboard" =>
          C12_User(get_clipboard_text(clipboard))
    /\ out'.op = "_poll_clipboard" =>
          /\ out'.dialogs = <<>>
          /\ (out'.exports # <<>> /\ combo_review_var = Sentinel) =>
                /\ OneToast(out', {"no_review_file"})
                /\ out'.exporter_calls = 0
                /\ out'.written = <<>>
          /\ (out'.exporter_calls = 1 /\ out'.written = <<>>) =>
                OneToast(out', {"export_failed"})
          /\ out'.exports = <<>> => out'.exporter_calls = 0

C12_Channels == [][C12_Step]_vars

(* A poll whose export failed in the writer. *)
C12_Witness ==
    /\ out.op = "_poll_clipboard"
    /\ out.exporter_calls = 1
    /\ out.written = <<>>
    /\ out.toasts = <<"export_failed">>
    /\ reply_display = ClipA

---------------------------------------------------------------------------
(* Startup, the selection and teardown: claims C14 to C16.                 *)

(* C14, as claimed: once destroy has run, no callback scheduled by the     *)
(* application is pending and the observer has been stopped and joined.    *)
C14_Original ==
    window = "destroyed" => (timers = {} /\ observer = "stopped")

(* C15, as claimed: when the directory of the new selection is missing,    *)
(* no error leaves on_selection_change, the window stays open and the      *)
(* watch is inactive.                                                      *)
C15_Original ==
    (out.op = "on_selection_change" /\ InputDir(base_path, selection) \notin dirs)
        => (out.raised = "none" /\ window = "open" /\ watch = NoWatch)

(* C16, as claimed: when making the directories under the original base    *)
(* path fails with any error of the file system (and the fallback can be   *)
(* written), __init__ goes on: the base path is the fallback, the          *)
(* directories exist there and the paths resolved later are under it.      *)
C16_Original ==
    (out.op = "__init__" /\ out.setup[1] # "ok"
       /\ (Len(out.setup) = 2 => out.setup[2] = "ok")) =>
        /\ out.raised = "none"
        /\ window = "open"
        /\ base_path = "fallback"
        /\ \A s \in Sel : InputDir("fallback", s) \in dirs
        /\ watch = InputDir("fallback", selection)


---------------------------------------------------------------------------
(* C17, as claimed: in every reachable state at most one debounced-refresh *)
(* timer is pending and the stored handle refers to it (while no request   *)
(* is between its call of after and the store of the handle), whatever the *)
(* interleaving of the requests of the event handlers, of the request of   *)
(* the creation-delay callback and of the timer firing.                    *)
C17_Original ==
    /\ Cardinality(RefreshTimers(timers)) <= 1
    /\ wthread.pc # "refresh_store" =>
          \A t \in RefreshTimers(timers) : t.id = refresh_job

---------------------------------------------------------------------------
(* C18, as claimed: a step of the observer's thread reads and writes none  *)
(* of the pending-refresh handle, the in-flight set, the catalog and the   *)
(* widgets; all it does is put a callback on the timer queue.              *)
C18_Step ==
    wthread' # wthread =>
        /\ wthread'.touched = {}
        /\ UNCHANGED <<refresh_job, processing, viewVars>>

C18_Original == [][C18_Step]_vars


---------------------------------------------------------------------------
(* C19: in every reachable state at most one poll of the clipboard is      *)
(* pending, and self._clipboard_job is its handle, whatever the sequence   *)
(* of clicks on the checkbox and of polls; a step that arms the monitor or *)
(* reschedules the poll leaves exactly one, which is new.                  *)
C19_OnePending ==
    /\ Cardinality(PollTimers(timers)) <= 1
    /\ \A t \in PollTimers(timers) : t.id = clipboard_job

C19_Step ==
    (out'.op = "toggle_clipboard_watch" /\ clipboard_auto_var')
    \/ (out'.op = "_poll_clipboard" /\ out'.read)
        => /\ Cardinality(PollTimers(timers')) = 1
           /\ \A t \in PollTimers(timers') : t.age = 0 /\ t.id = clipboard_job'

C19_OnePoll == []C19_OnePending /\ [][C19_Step]_vars

(* The monitor armed again after an earlier armed period in which a poll   *)
(* filled the reply box: one poll is pending.                              *)
C19_Witness ==
    /\ out.op = "toggle_clipboard_watch"
    /\ clipboard_auto_var
    /\ reply_display # <<>>
    /\ Cardinality(PollTimers(timers)) = 1


---------------------------------------------------------------------------
(* C20: while the monitor stays armed, every poll ends with the next poll  *)
(* scheduled clipboard_poll_ms later and its handle stored, whether the    *)
(* poll read nothing new, exported, or failed to export for want of a      *)
(* target or by an error of the writer.                                    *)
C20_Step ==
    (out'.op = "_poll_clipboard" /\ clipboard_auto_var /\ clipboard_auto_var') =>
        \E t \in timers' :
            /\ PollTimers(timers') = {t}
            /\ t.rem = clipboard_poll_ms
            /\ t.age = 0
            /\ t.id = clipboard_job'

C20_KeepsPolling == [][C20_Step]_vars

(* A poll whose export the writer failed, with the next poll pending. *)
C20_Witness ==
    /\ out.op = "_poll_clipboard"
    /\ clipboard_auto_var
    /\ out.exporter_calls = 1
    /\ out.written = <<>>
    /\ \E t \in PollTimers(timers) : t.rem = clipboard_poll_ms


---------------------------------------------------------------------------
(* C21: arming the monitor sets last-seen to None and schedules a poll     *)
(* ImmediatePollMs later; the first poll after arming exports the          *)
(* non-empty text it reads, whatever was seen or shown in an earlier armed *)
(* period.                                                                 *)
C21_Arm ==
    (~clipboard_auto_var /\ clipboard_auto_var') =>
        /\ last_clipboard' = NoText
        /\ \E t \in timers' :
              /\ PollTimers(timers') = {t}
              /\ t.rem = ImmediatePollMs
              /\ t.id = clipboard_job'

C21_First ==
    (clipboard_auto_var /\ polls.n = 0 /\ out'.op = "_poll_clipboard"
        /\ out'.read /\ out'.content # <<>>) =>
        /\ out'.exports = <<out'.content>>
        /\ last_clipboard' = out'.content
        /\ reply_display' = out'.content

C21_Rearm == [][C21_Arm /\ C21_First]_vars

(* Armed again with the text on the clipboard that a poll of an earlier    *)
(* armed period put into the reply box.                                    *)
C21_Witness ==
    /\ out.op = "toggle_clipboard_watch"
    /\ clipboard_auto_var
    /\ polls.n = 0
    /\ last_clipboard = NoText
    /\ reply_display = ClipA
    /\ get_clipboard_text(clipboard) = ClipA
    /\ \E t \in PollTimers(timers) : t.rem = ImmediatePollMs


---------------------------------------------------------------------------
(* C22: a path marked in flight by a creation event is removed from the    *)
(* in-flight set when its delayed handler runs, whether the file exists,   *)
(* has vanished or a call of the handler raised; so every path in flight   *)
(* eventually leaves the set.                                              *)
C22_Step ==
    out'.op = "handle_file" =>
        (out'.path \in processing /\ out'.path \notin processing')

C22_Eventually ==
    \A p \in ThreadNames : (p \in processing) ~> (p \notin processing)

C22_Cleared == [][C22_Step]_vars /\ C22_Eventually

(* The handler of a file that exists has raised and logged, and the path   *)
(* is no longer in flight.                                                 *)
C22_Witness ==
    /\ out.op = "handle_file"
    /\ out.logged # <<>>
    /\ out.path \in DOMAIN files
    /\ out.path \notin processing


---------------------------------------------------------------------------
(* C23: a creation event for a directory, for a file is_skip_file skips or *)
(* for a path in flight schedules nothing, shows nothing, requests no      *)
(* refresh and leaves the in-flight set as it was; so a path has at most   *)
(* one delayed handler pending.                                            *)
C23_Step ==
    out'.op = "on_created" =>
        \A n \in DOMAIN files' \ DOMAIN files :
            (files'[n].kind = "dir" \/ is_skip_file(n) \/ n \in processing) =>
                /\ timers' = timers
                /\ processing' = processing
                /\ refresh_job' = refresh_job
                /\ out'.toasts = <<>>
                /\ out'.dialogs = <<>>

C23_OneHandler ==
    \A p \in WatchNames : Cardinality(HandleTimers(timers, p)) <= 1

---------------------------------------------------------------------------
(* C24, as claimed: every modification, move or deletion event of an entry *)
(* that is not a directory requests a debounced refresh (DebounceMs from   *)
(* the event), whatever the name of the entry, skipped names included.     *)
C24_Requested ==
    \E t \in timers' :
        /\ RefreshTimers(timers') = {t}
        /\ t.rem = DebounceMs
        /\ t.age = 0
        /\ refresh_job' = t.id

C24_Gone ==
    \A n \in DOMAIN files \ DOMAIN files' : files[n].kind = "file" => C24_Requested

C24_Step ==
    /\ out'.op = "on_modified" =>
          ((\A n \in DOMAIN files : files[n].kind = "file") => C24_Requested)
    /\ out'.op = "on_moved" => C24_Gone
    /\ out'.op = "on_deleted" => C24_Gone

C24_Original == [][C24_Step]_vars


---------------------------------------------------------------------------
(* C25, as claimed: while the window is open, after __init__ and after any *)
(* sequence of selection changes, the observer watches one directory, the  *)
(* input directory of the selection shown: never a directory of an earlier *)
(* selection and never none.                                               *)
C25_Original ==
    window = "open" => watch = InputDir(base_path, selection)


---------------------------------------------------------------------------
(* C26, as claimed: when generate_prompt is invoked with two or more       *)
(* review files in the directory, right after the user has chosen one of   *)
(* them in combo_review, the prompt it produces names the chosen file as   *)
(* its target.                                                             *)
C26_Step ==
    LET review == WithTag(list_input_files(files).tagged, TagRev)
    IN (out.op = "select_review" /\ out'.op = "generate_prompt"
           /\ Len(review) >= 2 /\ combo_review_var \in Range(review)) =>
          /\ prompt_display' # <<>>
          /\ prompt_display'[1] = Line("review_target", combo_review_var)

C26_Original == [][C26_Step]_vars


---------------------------------------------------------------------------
(* C27: the stability wait of tag_file makes at most WaitAttempts attempts *)
(* (with at most two sleeps each), and when it ends, by two sizes that     *)
(* agree or by the last attempt, the rename is attempted: whether sizes    *)
(* agreed, never agreed, or every sampling raised.                         *)
C27_AtMost ==
    ret.op \in {"tag_file_wait", "tag_file"} =>
        /\ ret.attempts <= WaitAttempts
        /\ ret.sleeps <= 2 * ret.attempts

C27_Goes ==
    ret.op = "tag_file_wait" =>
        \/ wait_continues(ret.attempts, ret.last) /\ ret.attempts < MaxSamples
        \/ ~wait_continues(ret.attempts, ret.last)

C27_Step ==
    (ret.op = "tag_file_wait" /\ ret'.op # "tag_file_wait") =>
        /\ ret'.op = "tag_file"
        /\ ret'.filename = ret.filename /\ ret'.tag = ret.tag
        /\ ret'.attempts = ret.attempts
        /\ ret'.attempts >= 1
        /\ (ret.last = "same" \/ ret.attempts = WaitAttempts)
        /\ ret'.rename \in RenameOutcomes
        /\ ret'.rename = "ok" =>
              (ret'.ok /\ (ret.tag \o ret.filename) \in DOMAIN files')

C27_Bounded == [](C27_AtMost /\ C27_Goes) /\ [][C27_Step]_vars

(* Every sampling raised after its sleep, five times over; the rename was  *)
(* made and succeeded.                                                     *)
C27_Witness ==
    /\ IsTagCall(ret)
    /\ ret.attempts = WaitAttempts
    /\ ret.sleeps = 2 * WaitAttempts
    /\ ret.last = "error2"
    /\ ret.rename = "ok"
    /\ ret.ok


---------------------------------------------------------------------------
(* C28, as claimed: no wait of the program keeps the event loop from       *)
(* running a callback: whenever a clipboard poll is due, the UI thread can *)
(* run it, also while the tagger is in its stability wait.                 *)
C28_Original ==
    (\E t \in Due(timers) : t.cb = "_poll_clipboard") => ENABLED Free(RunDue)


---------------------------------------------------------------------------
(* C29: after every refresh of the catalog (the refresh button, a          *)
(* successful tagging, the debounced refresh) the review selector shows    *)
(* the first review file of the directory in the order of str, or the      *)
(* sentinel when there is none, whatever it showed before; an export takes *)
(* as its target what the selector shows, so an export that follows a      *)
(* refresh is made for that first file.                                    *)
FirstReview(fs) ==
    LET R == {f \in all_files(fs) : StartsWith(f, TagRev)}
    IN IF R = {} THEN Sentinel
       ELSE CHOOSE r \in R : \A x \in R \ {r} : StrLess(r, x)

C29_Refreshed(o, r) ==
    \/ o.op \in {"refresh_all", "_run_refresh"}
    \/ o.op = "tag_file" /\ r.ok

C29_Step ==
    /\ C29_Refreshed(out', ret') => combo_review_var' = FirstReview(files')
    /\ out'.op = "export_word" =>
          /\ \A i \in 1..Len(out'.written) :
                out'.written[i].name = combo_review_var
          /\ C29_Refreshed(out, ret) =>
                \A i \in 1..Len(out'.written) :
                    out'.written[i].name = FirstReview(files)

---------------------------------------------------------------------------
(* C30: a poll that attempts an export sets last-seen to the text it read, *)
(* also when the export fails (no target, or an error of the writer);      *)
(* last-seen then changes only by a poll that reads another text or by     *)
(* arming, so later polls that read the same text attempt no export, also  *)
(* once a target is there.                                                 *)
C30_Step ==
    /\ (out'.op = "_poll_clipboard" /\ out'.exports # <<>>) =>
          /\ out'.exports = <<out'.content>>
          /\ last_clipboard' = out'.content
    /\ (out'.op = "_poll_clipboard" /\ out'.read /\ out'.content # <<>>
           /\ out'.content = last_clipboard) =>
          /\ out'.exports = <<>>
          /\ out'.written = <<>>
          /\ last_clipboard' = last_clipboard
    /\ last_clipboard' # last_clipboard =>
          \/ out'.op = "_poll_clipboard" /\ out'.exports # <<>>
          \/ out'.op = "toggle_clipboard_watch" /\ clipboard_auto_var'

C30_NoRetry == [][C30_Step]_vars

(* A poll whose export failed for want of a target: the text it read is    *)
(* last-seen all the same.                                                 *)
C30_Witness ==
    /\ out.op = "_poll_clipboard"
    /\ combo_review_var = Sentinel
    /\ out.exports = <<ClipA>>
    /\ out.written = <<>>
    /\ out.exporter_calls = 0
    /\ last_clipboard = ClipA


---------------------------------------------------------------------------
(* C31: with other processes creating, deleting and renaming entries       *)
(* between the statements of tag_file, every content the directory held    *)
(* when the call began, and that no other process removed, is in the       *)
(* directory under some name during the call and when it has returned.     *)
C31_Original ==
    ret.op \in {"tag_file_wait", "tag_file"} => ret.before \subseteq Contents(files)


---------------------------------------------------------------------------
(* C32: handle_file shows the notification of a new file, and with it      *)
(* requests a refresh, only for a file in the input directory of the       *)
(* selection current when it runs; after a change of selection the         *)
(* callback scheduled under the watch before shows nothing.                *)
C32_Original ==
    (out.op = "handle_file" /\ out.toasts # <<>>) =>
       DirOf(out.path) = InputDir(base_path, selection)

=============================================================================
